---------------------------- MODULE Spec2Model ----------------------------
(***************************************************************************)
(* FamilyCalendar card (src/src/familycalendar-card.ts, src/src/utils.ts,   *)
(* event form of src/unnamed/part_006): the visibility set, the engine's    *)
(* event sources, the event dialog and the calendar service calls.          *)
(*                                                                         *)
(* Strings are tuples: '' is << >>.  A title or description is a tuple of   *)
(* one-character strings; an error message is a tuple of its parts; the     *)
(* value of a date input is <<day>>, of a datetime-local input             *)
(* <<day, minute>>.  An optional object is << >> (undefined) or <<v>>.      *)
(***************************************************************************)
EXTENDS Integers, Sequences, FiniteSets, Bags, TLC

\* ------------------------------------------------------------------ bounds
\* writes that may be in flight at once
MaxTasks == 2
\* days the engine can hand to a callback: 1..MaxDay
MaxDay == 1

\* --------------------------------------------------------- small utilities
SeqToSet(s) == {s[i] : i \in 1..Len(s)}

RECURSIVE FilterSeq(_, _)
\* Array.prototype.filter with the membership test of a set
FilterSeq(s, keep) ==
  IF s = << >> THEN << >>
  ELSE IF Head(s) \in keep THEN <<Head(s)>> \o FilterSeq(Tail(s), keep)
       ELSE FilterSeq(Tail(s), keep)

NoDedup(s, seen) == s
RECURSIVE Dedup(_, _)
\* insertion order of a JS Set fed the elements of s after those of seen
Dedup(s, seen) ==
  IF s = << >> THEN << >>
  ELSE IF Head(s) \in seen THEN Dedup(Tail(s), seen)
       ELSE <<Head(s)>> \o Dedup(Tail(s), seen \cup {Head(s)})

RECURSIVE Flatten(_)
Flatten(ss) == IF ss = << >> THEN << >> ELSE Head(ss) \o Flatten(Tail(ss))

RECURSIVE TrimStart(_)
TrimStart(s) ==
  IF s # << >> /\ Head(s) = " " THEN TrimStart(Tail(s)) ELSE s

RECURSIVE TrimEnd(_)
TrimEnd(s) ==
  IF s # << >> /\ s[Len(s)] = " " THEN TrimEnd(SubSeq(s, 1, Len(s) - 1)) ELSE s

NoTrim(s) == s
\* String.prototype.trim: leading and trailing spaces removed
Trim(s) == TrimEnd(TrimStart(s))

\* ------------------------------------------------------------ configuration
\* person.color is "" when the person defines none
ConfigAB ==
  [calendars |-> <<"calendar.a", "calendar.b">>, persons |-> << >>]
ConfigAlice ==
  [calendars |-> <<"calendar.a">>,
   persons |-> <<[name |-> "Alice", calendars |-> <<"calendar.a", "calendar.b">>,
                  color |-> "#ff0000"]>>]
ConfigMixed ==
  [calendars |-> <<"calendar.c", "calendar.a">>,
   persons |-> <<[name |-> "Bob", calendars |-> <<"calendar.a", "calendar.b">>,
                  color |-> ""]>>]
ConfigInputs == {ConfigAB, ConfigAlice, ConfigMixed}

DEFAULT_COLORS ==
  <<"#039be5", "#33b679", "#8e24aa", "#e67c73", "#f6c026",
    "#f5511d", "#0b8043", "#d50000", "#e4c441", "#616161">>

PersonCalendars(cfg) ==
  Flatten([i \in 1..Len(cfg.persons) |-> cfg.persons[i].calendars])

getAllCalendarIds(cfg) == Dedup(cfg.calendars \o PersonCalendars(cfg), {})

\* the first person listing the calendar with a colour wins, else the palette
getCalendarColor(entityId, cfg, index) ==
  LET owners == {i \in 1..Len(cfg.persons) :
                   /\ entityId \in SeqToSet(cfg.persons[i].calendars)
                   /\ cfg.persons[i].color # ""}
  IN IF owners # {}
     THEN cfg.persons[CHOOSE i \in owners : \A j \in owners : i <= j].color
     ELSE DEFAULT_COLORS[(index % Len(DEFAULT_COLORS)) + 1]

\* explicit groups in configuration order, then one synthetic group per
\* calendar no person lists
personGroups(cfg) ==
  LET grouped == SeqToSet(PersonCalendars(cfg))
      all == getAllCalendarIds(cfg)
      ungrouped == FilterSeq(all, SeqToSet(all) \ grouped)
  IN [i \in 1..Len(cfg.persons) |->
        [key |-> cfg.persons[i].name, ids |-> cfg.persons[i].calendars]]
     \o [i \in 1..Len(ungrouped) |-> [key |-> ungrouped[i], ids |-> <<ungrouped[i]>>]]


\* ------------------------------------------------------------------- state
VARIABLES
  config,                \* _config: << >> or <<cfg>>
  hass,                  \* TRUE once the host has assigned hass
  isConnected,           \* the element is attached to the document
  hasUpdated,            \* Lit has performed the element's first update
  currentView,           \* _currentView
  visibleCalendars,      \* _visibleCalendars
  newEventData,          \* _newEventData: << >> or <<[start, end, allDay]>>
  newEventTitle, newEventDescription, newEventStart, newEventEnd,
  newEventCalendar, newEventAllDay,
  dialogMode,            \* _dialogMode
  editingEventEntityId, editingEventUid,
  saving, deleting, errorMessage,
  calendar,              \* _calendar: << >> or <<[sources, view, scrollTime]>>
  calendarContainer,     \* _calendarContainer: "" or the container's id
  fcInitialized,         \* _fcInitialized
  tasks,                 \* bag of the writes awaiting the backend's answer
  calls,                 \* service calls issued by the last step, in order
  engineOps,             \* engine methods called by the last step, in order
  lastDone               \* << >> or <<outcome of the write the last step ended>>

hostVars == <<config, hass, isConnected, hasUpdated, currentView>>
draftVars == <<newEventTitle, newEventDescription, newEventStart, newEventEnd,
               newEventCalendar, newEventAllDay>>
dialogVars == <<newEventData, dialogMode, editingEventEntityId, editingEventUid>>
busyVars == <<saving, deleting, errorMessage>>
engineVars == <<calendar, calendarContainer, fcInitialized>>
stepVars == <<calls, engineOps, lastDone>>
vars == <<hostVars, visibleCalendars, draftVars, dialogVars, busyVars,
          engineVars, tasks, stepVars>>

\* the state Lit watches: a change of any of it schedules an update
reactiveVars == <<config, hass, visibleCalendars, currentView, draftVars, dialogVars,
                  busyVars>>

FcContainer == "fc-container"

\* two of the three views of the view selector, and the default of _currentView
DefaultView == "dayGridMonth"
Views == {"dayGridMonth", "timeGridWeek"}

Init ==
  /\ config = << >> /\ hass = FALSE /\ isConnected = FALSE /\ hasUpdated = FALSE
  /\ currentView = DefaultView
  /\ visibleCalendars = {}
  /\ newEventData = << >>
  /\ newEventTitle = << >> /\ newEventDescription = << >>
  /\ newEventStart = << >> /\ newEventEnd = << >>
  /\ newEventCalendar = "" /\ newEventAllDay = FALSE
  /\ dialogMode = "create"
  /\ editingEventEntityId = "" /\ editingEventUid = ""
  /\ saving = FALSE /\ deleting = FALSE /\ errorMessage = << >>
  /\ calendar = << >> /\ calendarContainer = "" /\ fcInitialized = FALSE
  /\ tasks = EmptyBag
  /\ calls = << >> /\ engineOps = << >> /\ lastDone = << >>

\* ------------------------------------------------------------------ engine
\* ------------------------------------------------------------- scroll time
Digits == <<"0", "1", "2", "3", "4", "5", "6", "7", "8", "9">>
IsDigit(c) == \E n \in 1..10 : Digits[n] = c

\* Number.parseInt of two decimal digits
ParseInt2(s) ==
  LET v(c) == (CHOOSE n \in 1..10 : Digits[n] = c) - 1
  IN 10 * v(s[1]) + v(s[2])

\* value.match(/^(\d{2}):(\d{2})(?::(\d{2}))?$/): << >> without a match, else the
\* groups, the third being << >> when it did not take part
MatchTime(value) ==
  LET two(i) == IsDigit(value[i]) /\ IsDigit(value[i + 1])
  IN IF Len(value) = 5 /\ two(1) /\ value[3] = ":" /\ two(4)
     THEN <<[h |-> SubSeq(value, 1, 2), m |-> SubSeq(value, 4, 5), s |-> << >>]>>
     ELSE IF Len(value) = 8 /\ two(1) /\ value[3] = ":" /\ two(4)
                            /\ value[6] = ":" /\ two(7)
     THEN <<[h |-> SubSeq(value, 1, 2), m |-> SubSeq(value, 4, 5),
             s |-> <<SubSeq(value, 7, 8)>>]>>
     ELSE << >>

Midnight == <<"0", "0", ":", "0", "0", ":", "0", "0">>

HoursUpTo24(hours, minutes, seconds) ==
  hours <= 24 /\ minutes <= 59 /\ seconds <= 59
\* the range check on the parsed components; two digits are never negative
InRange(hours, minutes, seconds) ==
  ~(hours < 0 \/ hours > 23 \/ minutes < 0 \/ minutes > 59
      \/ seconds < 0 \/ seconds > 59)

\* _getInitialScrollTime(); initial_time is an optional field of the config
getInitialScrollTime(cfgOpt) ==
  IF cfgOpt = << >> \/ "initial_time" \notin DOMAIN cfgOpt[1] THEN Midnight
  ELSE LET value == Trim(cfgOpt[1].initial_time)
           match == MatchTime(value)
       IN IF value = << >> THEN Midnight
          ELSE IF match = << >> THEN Midnight
          ELSE LET g == match[1]
                   sec == IF g.s = << >> THEN <<"0", "0">> ELSE g.s[1]
               IN IF ~InRange(ParseInt2(g.h), ParseInt2(g.m), ParseInt2(sec))
                  THEN Midnight
                  ELSE g.h \o <<":">> \o g.m \o <<":">> \o sec

EngineOp(op, arg) == [op |-> op, arg |-> arg]

VisibleIds(cfg, vis) == FilterSeq(getAllCalendarIds(cfg), vis)

\* one source per visible id, in allIds order; the palette index is the
\* position in the filtered list; the engine calls the events function of a
\* source it is given, so its fetch is pending
SourcesFor(cfg, vis) ==
  LET ids == VisibleIds(cfg, vis)
  IN [i \in 1..Len(ids) |->
        [id |-> ids[i], color |-> getCalendarColor(ids[i], cfg, i - 1), fetch |-> "pending"]]

SourcesOfEveryCalendar(cfgOpt, h, vis) ==
  IF cfgOpt = << >> \/ ~h THEN << >>
  ELSE SourcesFor(cfgOpt[1], SeqToSet(getAllCalendarIds(cfgOpt[1])))

\* _buildEventSources: nothing without config or hass
buildEventSources(cfgOpt, h, vis) ==
  IF cfgOpt = << >> \/ ~h THEN << >> ELSE SourcesFor(cfgOpt[1], vis)

SourceIds(cal) == [i \in 1..Len(cal[1].sources) |-> cal[1].sources[i].id]

OpsOver(op, ids) == [i \in 1..Len(ids) |-> EngineOp(op, ids[i])]

RefetchFirstOnly(cal) ==
  IF cal = << >> \/ cal[1].sources = << >> THEN << >>
  ELSE <<EngineOp("refetch", cal[1].sources[1].id)>>
NoRefetch(cal) == << >>
\* this._calendar?.getEventSources().forEach((src) => src.refetch())
RefetchOps(cal) == IF cal = << >> THEN << >> ELSE OpsOver("refetch", SourceIds(cal))

\* this._calendar?.unselect()
UnselectOps(cal) == IF cal = << >> THEN << >> ELSE <<EngineOp("unselect", "")>>

\* a refetch makes the engine call the events function of every source again
Refetched(cal) ==
  IF cal = << >> THEN cal
  ELSE <<[cal[1] EXCEPT !.sources =
            [i \in 1..Len(cal[1].sources) |-> [cal[1].sources[i] EXCEPT !.fetch = "pending"]]]>>

\* the engine after the calls a handler made on it
AfterOps(cal, ops) ==
  IF \E i \in 1..Len(ops) : ops[i].op = "refetch" THEN Refetched(cal) ELSE cal

\* updated(): what Lit's update does to the engine after a step that changed
\* reactive state; ops are the engine calls the step's handler made before it
updated(changed, hassChanged, ops) ==
  IF ~changed \/ ~hasUpdated' \/ ~isConnected' \/ config' = << >> \/ ~hass'
  THEN /\ calendar' = AfterOps(calendar, ops)
       /\ UNCHANGED <<calendarContainer, fcInitialized>>
       /\ engineOps' = ops
  ELSE IF ~fcInitialized
  THEN /\ calendar' = <<[sources |-> buildEventSources(config', hass', visibleCalendars'),
                          view |-> currentView',
                          scrollTime |-> getInitialScrollTime(config')]>>
       /\ calendarContainer' = FcContainer
       /\ fcInitialized' = TRUE
       /\ engineOps' = ops \o <<EngineOp("render", "")>>
  ELSE IF calendarContainer # FcContainer
  THEN /\ calendar' = <<[sources |-> buildEventSources(config', hass', visibleCalendars'),
                          view |-> currentView',
                          scrollTime |-> getInitialScrollTime(config')]>>
       /\ calendarContainer' = FcContainer
       /\ fcInitialized' = TRUE
       /\ engineOps' = ops \o <<EngineOp("destroy", ""), EngineOp("render", "")>>
  ELSE /\ calendar' = AfterOps(calendar, ops \o (IF hassChanged THEN RefetchOps(calendar)
                                                  ELSE << >>))
       /\ UNCHANGED <<calendarContainer, fcInitialized>>
       /\ engineOps' = ops \o (IF hassChanged THEN RefetchOps(calendar) ELSE << >>)

\* ------------------------------------------------------------ host lifecycle
\* setConfig(config)
setConfig(c) ==
  /\ config' = <<c>>
  /\ visibleCalendars' = SeqToSet(getAllCalendarIds(c))
  /\ newEventCalendar' = IF getAllCalendarIds(c) = << >> THEN "" ELSE getAllCalendarIds(c)[1]
  /\ currentView' = DefaultView
  /\ UNCHANGED <<hass, isConnected, hasUpdated>>
  /\ UNCHANGED <<newEventTitle, newEventDescription, newEventStart, newEventEnd, newEventAllDay>>
  /\ UNCHANGED <<dialogVars, busyVars, tasks>>
  /\ calls' = << >> /\ lastDone' = << >>
  /\ updated(TRUE, FALSE, << >>)

\* the host assigns a new hass object
setHass ==
  /\ hass' = TRUE
  /\ UNCHANGED <<config, isConnected, hasUpdated, currentView, visibleCalendars>>
  /\ UNCHANGED <<draftVars, dialogVars, busyVars, tasks>>
  /\ calls' = << >> /\ lastDone' = << >>
  /\ updated(TRUE, TRUE, << >>)

\* connectedCallback: only the first connection performs an update by itself
connectedCallback ==
  /\ ~isConnected
  /\ isConnected' = TRUE /\ hasUpdated' = TRUE
  /\ UNCHANGED <<config, hass, currentView, visibleCalendars>>
  /\ UNCHANGED <<draftVars, dialogVars, busyVars, tasks>>
  /\ calls' = << >> /\ lastDone' = << >>
  /\ updated(~hasUpdated, FALSE, << >>)

DetachKeepingEngine ==
  /\ isConnected
  /\ isConnected' = FALSE
  /\ UNCHANGED engineVars /\ engineOps' = << >>
  /\ UNCHANGED <<config, hass, hasUpdated, currentView, visibleCalendars>>
  /\ UNCHANGED <<draftVars, dialogVars, busyVars, tasks>>
  /\ calls' = << >> /\ lastDone' = << >>
\* disconnectedCallback: _teardownCalendar
disconnectedCallback ==
  /\ isConnected
  /\ isConnected' = FALSE
  /\ calendar' = << >> /\ calendarContainer' = "" /\ fcInitialized' = FALSE
  /\ engineOps' = IF calendar = << >> THEN << >> ELSE <<EngineOp("destroy", "")>>
  /\ UNCHANGED <<config, hass, hasUpdated, currentView, visibleCalendars>>
  /\ UNCHANGED <<draftVars, dialogVars, busyVars, tasks>>
  /\ calls' = << >> /\ lastDone' = << >>

\* ------------------------------------------------------------- visibility
EveryMemberVisible(group, vis) == \A i \in 1..Len(group.ids) : group.ids[i] \in vis
isGroupVisible(group, vis) == \E i \in 1..Len(group.ids) : group.ids[i] \in vis

FlipWrite(vis, group, shouldBeVisible) ==
  (vis \ SeqToSet(group.ids)) \cup (SeqToSet(group.ids) \ vis)
FirstMemberWrite(vis, group, shouldBeVisible) ==
  IF group.ids = << >> THEN vis
  ELSE IF shouldBeVisible THEN vis \cup {group.ids[1]} ELSE vis \ {group.ids[1]}
\* the loop of _setGroupVisible over the copy of the set
GroupWrite(vis, group, shouldBeVisible) ==
  IF shouldBeVisible THEN vis \cup SeqToSet(group.ids) ELSE vis \ SeqToSet(group.ids)

RebuiltKeepingColors(cal, cfg, vis) ==
  <<[cal[1] EXCEPT !.sources =
       [i \in 1..Len(SourcesFor(cfg, vis)) |->
          LET src == SourcesFor(cfg, vis)[i]
              old == {k \in 1..Len(cal[1].sources) : cal[1].sources[k].id = src.id}
          IN IF old = {} THEN src ELSE cal[1].sources[CHOOSE k \in old : TRUE]]]>>
\* _refreshCalendarSources past its guards: remove every source, add the visible
RebuiltCalendar(cal, cfg, vis) == <<[cal[1] EXCEPT !.sources = SourcesFor(cfg, vis)]>>

RebuildOps(cal, cfg, vis) ==
  OpsOver("remove", SourceIds(cal)) \o OpsOver("addEventSource", VisibleIds(cfg, vis))

\* the chips are rendered for more than one group; a click calls
\* _setGroupVisible(group, !isVisible)
setGroupVisible(group, shouldBeVisible) ==
  /\ visibleCalendars' = GroupWrite(visibleCalendars, group, shouldBeVisible)
  /\ UNCHANGED <<hostVars, draftVars, dialogVars, busyVars, tasks>>
  /\ calls' = << >> /\ lastDone' = << >>
  /\ IF calendar = << >> \/ config = << >> \/ ~isConnected
     THEN updated(TRUE, FALSE, << >>)
     ELSE /\ calendar' = RebuiltCalendar(calendar, config[1], visibleCalendars')
          /\ UNCHANGED <<calendarContainer, fcInitialized>>
          /\ engineOps' = RebuildOps(calendar, config[1], visibleCalendars')

chipClick ==
  /\ isConnected /\ hasUpdated /\ config # << >>
  /\ Len(personGroups(config[1])) > 1
  /\ \E i \in 1..Len(personGroups(config[1])) :
       LET group == personGroups(config[1])[i]
       IN setGroupVisible(group, ~isGroupVisible(group, visibleCalendars))

\* a click dispatched on a chip the detached element still holds from its
\* last render
detachedChipClick ==
  /\ ~isConnected /\ hasUpdated /\ config # << >>
  /\ Len(personGroups(config[1])) > 1
  /\ \E i \in 1..Len(personGroups(config[1])) :
       LET group == personGroups(config[1])[i]
       IN setGroupVisible(group, ~isGroupVisible(group, visibleCalendars))

\* _setCalendarView(event) from the view selector
setCalendarView(value) ==
  /\ isConnected /\ hasUpdated /\ config # << >>
  /\ value # currentView
  /\ currentView' = value
  /\ UNCHANGED <<config, hass, isConnected, hasUpdated, visibleCalendars>>
  /\ UNCHANGED <<draftVars, dialogVars, busyVars, tasks>>
  /\ calls' = << >> /\ lastDone' = << >>
  /\ IF calendar = << >>
     THEN updated(TRUE, FALSE, << >>)
     ELSE /\ calendar' = <<[calendar[1] EXCEPT !.view = value]>>
          /\ UNCHANGED <<calendarContainer, fcInitialized>>
          /\ engineOps' = <<EngineOp("changeView", value)>>

\* -------------------------------------------------------------------- dates
\* a Date is its local wall-clock time in minutes
MinutesPerDay == 24 * 60
Days == 1..MaxDay

formatDateUtc(date) == <<(date - 60) \div MinutesPerDay>>
\* formatDateLocal: YYYY-MM-DD of the local date
formatDateLocal(date) == <<date \div MinutesPerDay>>

\* formatDateTimeLocal: YYYY-MM-DDTHH:MM
formatDateTimeLocal(date) == <<date \div MinutesPerDay, date % MinutesPerDay>>

parseNothing(value, allDay) == << >>
\* parseInput of _handleAllDayToggle: << >> is undefined.  A date input's value
\* gets T00:00:00 appended; a value that is not in the input's format (no
\* handler produces one) is an invalid date after the append
parseInput(value, allDay) ==
  IF value = << >> THEN << >>
  ELSE IF allDay
  THEN IF Len(value) = 1 THEN <<value[1] * MinutesPerDay>> ELSE << >>
  ELSE IF Len(value) = 2 THEN <<value[1] * MinutesPerDay + value[2]>>
       ELSE <<value[1] * MinutesPerDay>>

\* ------------------------------------------------------------------- dialog
\* _getText, English table
getText(key) ==
  CASE key = "titleError" -> "Please enter a title."
    [] key = "calendarError" -> "Please select a calendar."
    [] key = "uidError" -> "This event cannot be edited or deleted."
    [] key = "createError" -> "Failed to create event"
    [] key = "updateError" -> "Failed to update event"
    [] key = "deleteError" -> "Failed to delete event"

\* the draft's start and end strings for a window, FC's all-day end being exclusive
DraftStart(start, allDay) ==
  IF allDay THEN formatDateLocal(start) ELSE formatDateTimeLocal(start)
DraftEndExclusive(end, allDay) ==
  IF allDay THEN formatDateLocal(end) ELSE formatDateTimeLocal(end)
DraftEnd(end, allDay) ==
  IF allDay THEN formatDateLocal(end - MinutesPerDay) ELSE formatDateTimeLocal(end)

FirstIdAlways(current, allIds) == IF allIds = << >> THEN "" ELSE allIds[1]
\* the calendar a new draft targets: the one selected before while it is still
\* configured, else the first of all ids
TargetCalendar(current, allIds) ==
  IF current \in SeqToSet(allIds) THEN current
  ELSE IF allIds = << >> THEN "" ELSE allIds[1]

OpenKeepingIdentity(data) ==
  /\ dialogMode' = "create"
  /\ UNCHANGED <<editingEventEntityId, editingEventUid>>
  /\ newEventData' = <<data>>
  /\ newEventTitle' = << >> /\ newEventDescription' = << >>
  /\ newEventAllDay' = data.allDay
  /\ newEventStart' = DraftStart(data.start, data.allDay)
  /\ newEventEnd' = DraftEnd(data.end, data.allDay)
  /\ newEventCalendar' = TargetCalendar(newEventCalendar, getAllCalendarIds(config[1]))
  /\ errorMessage' = << >>
  /\ UNCHANGED <<hostVars, visibleCalendars, saving, deleting, tasks>>
  /\ calls' = << >> /\ lastDone' = << >>
  /\ updated(TRUE, FALSE, << >>)

\* _openNewEventDialog(data)
openNewEventDialog(data) ==
  /\ dialogMode' = "create"
  /\ editingEventEntityId' = "" /\ editingEventUid' = ""
  /\ newEventData' = <<data>>
  /\ newEventTitle' = << >> /\ newEventDescription' = << >>
  /\ newEventAllDay' = data.allDay
  /\ newEventStart' = DraftStart(data.start, data.allDay)
  /\ newEventEnd' = DraftEnd(data.end, data.allDay)
  /\ newEventCalendar' = TargetCalendar(newEventCalendar, getAllCalendarIds(config[1]))
  /\ errorMessage' = << >>
  /\ UNCHANGED <<hostVars, visibleCalendars, saving, deleting, tasks>>
  /\ calls' = << >> /\ lastDone' = << >>
  /\ updated(TRUE, FALSE, << >>)

\* the engine's callbacks need a live engine instance
EngineLive == calendar # << >> /\ isConnected /\ config # << >>

SourceCount == IF calendar = << >> THEN 0 ELSE Len(calendar[1].sources)

FailEverySource(i) ==
  /\ EngineLive /\ i \in 1..Len(calendar[1].sources)
  /\ calendar[1].sources[i].fetch = "pending"
  /\ calendar' = <<[calendar[1] EXCEPT !.sources =
                      [k \in 1..Len(calendar[1].sources) |->
                         [calendar[1].sources[k] EXCEPT !.fetch = "failure"]]]>>
  /\ engineOps' = OpsOver("failureCallback", SourceIds(calendar))
  /\ UNCHANGED <<hostVars, visibleCalendars, draftVars, dialogVars, busyVars, tasks>>
  /\ UNCHANGED <<calendarContainer, fcInitialized>>
  /\ calls' = << >> /\ lastDone' = << >>
\* the events function of source i: the promise of fetchCalendarEvents is
\* fulfilled and the mapped events go to the source's successCallback
fetchResolved(i) ==
  /\ EngineLive /\ i \in 1..Len(calendar[1].sources)
  /\ calendar[1].sources[i].fetch = "pending"
  /\ calendar' = <<[calendar[1] EXCEPT !.sources[i].fetch = "success"]>>
  /\ engineOps' = <<EngineOp("successCallback", calendar[1].sources[i].id)>>
  /\ UNCHANGED <<hostVars, visibleCalendars, draftVars, dialogVars, busyVars, tasks>>
  /\ UNCHANGED <<calendarContainer, fcInitialized>>
  /\ calls' = << >> /\ lastDone' = << >>

\* the promise is rejected: the catch hands the error to the failureCallback
fetchRejected(i) ==
  /\ EngineLive /\ i \in 1..Len(calendar[1].sources)
  /\ calendar[1].sources[i].fetch = "pending"
  /\ calendar' = <<[calendar[1] EXCEPT !.sources[i].fetch = "failure"]>>
  /\ engineOps' = <<EngineOp("failureCallback", calendar[1].sources[i].id)>>
  /\ UNCHANGED <<hostVars, visibleCalendars, draftVars, dialogVars, busyVars, tasks>>
  /\ UNCHANGED <<calendarContainer, fcInitialized>>
  /\ calls' = << >> /\ lastDone' = << >>

\* select(info)
select(info) ==
  /\ EngineLive
  /\ openNewEventDialog([start |-> info.start, end |-> info.end, allDay |-> info.allDay])

\* dateClick(info): end is start plus one hour
dateClick(info) ==
  /\ EngineLive
  /\ openNewEventDialog([start |-> info.date, end |-> info.date + 60, allDay |-> info.allDay])

\* _openEditEventDialog(event); event.start is set for every rendered event
openEditEventDialog(event) ==
  LET start == event.start
      end == IF event.end # << >> THEN event.end[1] ELSE start + 60
  IN /\ dialogMode' = "edit"
     /\ newEventData' = <<[start |-> start, end |-> end, allDay |-> event.allDay]>>
     /\ newEventTitle' = event.title
     /\ newEventAllDay' = event.allDay
     /\ editingEventEntityId' = event.entityId
     /\ editingEventUid' = event.uid
     /\ newEventStart' = DraftStart(start, event.allDay)
     /\ newEventEnd' = DraftEnd(end, event.allDay)
     /\ newEventCalendar' = event.entityId
     /\ newEventDescription' = event.description
     /\ errorMessage' = << >>
     /\ UNCHANGED <<hostVars, visibleCalendars, saving, deleting, tasks>>
     /\ calls' = << >> /\ lastDone' = << >>
     /\ updated(TRUE, FALSE, << >>)

\* eventClick(info): the event belongs to one of the engine's sources
eventClick(event) ==
  /\ EngineLive
  /\ event.entityId \in SeqToSet(SourceIds(calendar))
  /\ openEditEventDialog(event)

\* the dialog is rendered while _newEventData is set
DialogOpen == newEventData # << >> /\ isConnected /\ hasUpdated /\ config # << >>

\* a step that leaves the host, the visibility set and the writes alone and
\* makes no engine or service call of its own
FieldStep ==
  /\ UNCHANGED <<hostVars, visibleCalendars, tasks>>
  /\ calls' = << >> /\ lastDone' = << >>
  /\ updated(reactiveVars' # reactiveVars, FALSE, << >>)

titleChanged(v) ==
  /\ DialogOpen
  /\ newEventTitle' = v
  /\ UNCHANGED <<newEventDescription, newEventStart, newEventEnd, newEventCalendar,
                 newEventAllDay, dialogVars, busyVars>>
  /\ FieldStep

descriptionChanged(v) ==
  /\ DialogOpen
  /\ newEventDescription' = v
  /\ UNCHANGED <<newEventTitle, newEventStart, newEventEnd, newEventCalendar,
                 newEventAllDay, dialogVars, busyVars>>
  /\ FieldStep

startChanged(v) ==
  /\ DialogOpen
  /\ newEventStart' = v
  /\ UNCHANGED <<newEventTitle, newEventDescription, newEventEnd, newEventCalendar,
                 newEventAllDay, dialogVars, busyVars>>
  /\ FieldStep

endChanged(v) ==
  /\ DialogOpen
  /\ newEventEnd' = v
  /\ UNCHANGED <<newEventTitle, newEventDescription, newEventStart, newEventCalendar,
                 newEventAllDay, dialogVars, busyVars>>
  /\ FieldStep

\* the select offers the ids of the configuration
calendarChanged(v) ==
  /\ DialogOpen
  /\ v \in SeqToSet(getAllCalendarIds(config[1]))
  /\ newEventCalendar' = v
  /\ UNCHANGED <<newEventTitle, newEventDescription, newEventStart, newEventEnd,
                 newEventAllDay, dialogVars, busyVars>>
  /\ FieldStep

NoFallback(parsed, fallback) == parsed
\* parsed ?? fallback; << >> is undefined
OrElse(parsed, fallback) == IF parsed # << >> THEN parsed ELSE fallback

\* _handleAllDayToggle(checked)
handleAllDayToggle(checked) ==
  LET previousAllDay == newEventAllDay
      p1 == parseInput(newEventStart, previousAllDay)
      p2 == parseInput(newEventEnd, previousAllDay)
      fallbackStart == IF newEventData = << >> THEN << >> ELSE <<newEventData[1].start>>
      fallbackEnd == IF newEventData = << >> THEN << >> ELSE <<newEventData[1].end>>
      parsedStart == OrElse(p1, fallbackStart)
      parsedEnd == OrElse(p2, fallbackEnd)
  IN /\ DialogOpen
     /\ IF previousAllDay = checked \/ parsedStart = << >> \/ parsedEnd = << >>
        THEN UNCHANGED <<newEventAllDay, newEventStart, newEventEnd>>
        ELSE /\ newEventAllDay' = checked
             /\ newEventStart' = IF checked THEN formatDateLocal(parsedStart[1])
                                 ELSE formatDateTimeLocal(parsedStart[1])
             /\ newEventEnd' = IF checked THEN formatDateLocal(parsedEnd[1])
                               ELSE formatDateTimeLocal(parsedEnd[1])
     /\ UNCHANGED <<newEventTitle, newEventDescription, newEventCalendar,
                    dialogVars, busyVars>>
     /\ FieldStep

KeepIdentityOnClose ==
  /\ newEventData' = << >>
  /\ dialogMode' = "create"
  /\ UNCHANGED <<editingEventEntityId, editingEventUid>>
  /\ newEventDescription' = << >>
\* the assignments of _closeDialog
CloseDialogState ==
  /\ newEventData' = << >>
  /\ dialogMode' = "create"
  /\ editingEventEntityId' = "" /\ editingEventUid' = ""
  /\ newEventDescription' = << >>

\* _closeDialog from the cancel button or the dialog's closed event
closeDialog ==
  /\ DialogOpen
  /\ CloseDialogState
  /\ UNCHANGED <<newEventTitle, newEventStart, newEventEnd, newEventCalendar,
                 newEventAllDay, busyVars>>
  /\ UNCHANGED <<hostVars, visibleCalendars, tasks>>
  /\ calls' = << >> /\ lastDone' = << >>
  /\ updated(TRUE, FALSE, UnselectOps(calendar))


\* ------------------------------------------------------ persistence gateway
\* what hass.callService rejects with: an Error instance or a plain object,
\* either carrying a message
ErrorInputs ==
  {[isError |-> TRUE, message |-> "e1"], [isError |-> FALSE, message |-> "e2"]}

CreateServices == <<"create_event">>
UpdateServices == <<"edit_event", "update_event">>
DeleteServices == <<"delete_event", "remove_event">>

BothDateFields(allDay, startVal, endVal) ==
  [start_date |-> startVal, end_date |-> endVal,
   start_date_time |-> startVal, end_date_time |-> endVal]
\* the date pair of an all-day draft, the date-time pair of a timed one
DateFields(allDay, startVal, endVal) ==
  IF allDay THEN [start_date |-> startVal, end_date |-> endVal]
  ELSE [start_date_time |-> startVal, end_date_time |-> endVal]

\* description is set only when it is not blank
WithDescription(data, description) ==
  IF Trim(description) # << >> THEN data @@ [description |-> Trim(description)]
  ELSE data

SelectedCalendarUpdateData ==
  WithDescription(
    [entity_id |-> newEventCalendar, uid |-> editingEventUid,
     summary |-> Trim(newEventTitle)] @@
      DateFields(newEventAllDay, newEventStart, newEventEnd),
    newEventDescription)
\* serviceData of the edit branch of _saveEvent
UpdateServiceData ==
  WithDescription(
    [entity_id |-> editingEventEntityId, uid |-> editingEventUid,
     summary |-> Trim(newEventTitle)] @@
      DateFields(newEventAllDay, newEventStart, newEventEnd),
    newEventDescription)

\* allDayData / timedData of the create branches of _saveEvent
CreateServiceData ==
  WithDescription(
    [entity_id |-> newEventCalendar, summary |-> Trim(newEventTitle)] @@
      DateFields(newEventAllDay, newEventStart, newEventEnd),
    newEventDescription)

DeleteWithoutUid == [entity_id |-> editingEventEntityId, uid |-> ""]
\* the service data of _deleteEvent
DeleteServiceData == [entity_id |-> editingEventEntityId, uid |-> editingEventUid]

\* a write awaiting the answer to its call services[idx]; accepted and rejected
\* record the answers it has had, allDay the draft's flag when it was submitted
NewTask(kind, services, data, allDay) ==
  [kind |-> kind, services |-> services, idx |-> 1, data |-> data,
   lastError |-> << >>, accepted |-> 0, rejected |-> << >>, allDay |-> allDay]

\* a service call: attempt is its position among the calls of its write
CallOf(t, idx) ==
  [service |-> t.services[idx], data |-> t.data, kind |-> t.kind, attempt |-> idx,
   allDay |-> t.allDay]

InFlight == BagCardinality(tasks)
HasRoom == InFlight < MaxTasks

TryEverySynonym(accepted, services, idx) ==
  IF idx < Len(services) THEN idx + 1 ELSE 0
\* the loop of _callCalendarServiceWithFallback after the answer to call idx:
\* the index of the synonym it calls next, 0 when it ends
NextSynonym(accepted, services, idx) ==
  IF accepted THEN 0 ELSE IF idx < Len(services) THEN idx + 1 ELSE 0

KeepFirstError(lastError, e) == IF lastError = << >> THEN <<e>> ELSE lastError
\* catch (e) { lastError = e }
CatchError(lastError, e) == <<e>>

GenericError == [isError |-> TRUE, message |-> "Calendar service call failed."]

\* what a write throws when its last call was rejected with e: create_event is
\* called directly, the fallback rethrows lastError only if it is an Error
Thrown(t, lastError) ==
  IF t.kind = "create" THEN lastError[1]
  ELSE IF lastError[1].isError THEN lastError[1] ELSE GenericError

UidNeverMissing(uid) == FALSE
\* !this._editingEventUid
UidMissing(uid) == uid = ""

\* _saveEvent up to the first await
saveEvent ==
  /\ IF Trim(newEventTitle) = << >>
     THEN /\ errorMessage' = <<getText("titleError")>>
          /\ UNCHANGED <<saving, tasks>> /\ calls' = << >>
     ELSE IF newEventCalendar = ""
     THEN /\ errorMessage' = <<getText("calendarError")>>
          /\ UNCHANGED <<saving, tasks>> /\ calls' = << >>
     ELSE IF dialogMode = "edit" /\ UidMissing(editingEventUid)
     THEN /\ errorMessage' = <<getText("uidError")>>
          /\ saving' = FALSE
          /\ UNCHANGED tasks /\ calls' = << >>
     ELSE LET t == IF dialogMode = "edit"
                   THEN NewTask("update", UpdateServices, UpdateServiceData, newEventAllDay)
                   ELSE NewTask("create", CreateServices, CreateServiceData, newEventAllDay)
          IN /\ HasRoom
             /\ saving' = TRUE
             /\ errorMessage' = << >>
             /\ tasks' = tasks (+) SetToBag({t})
             /\ calls' = <<CallOf(t, 1)>>
  /\ UNCHANGED <<hostVars, visibleCalendars, draftVars, dialogVars, deleting>>
  /\ lastDone' = << >>
  /\ updated(reactiveVars' # reactiveVars, FALSE, << >>)

\* the save button is disabled while saving or deleting
saveClick == DialogOpen /\ ~(saving \/ deleting) /\ saveEvent

\* Enter in the title field emits familycalendar-submit, bound to _saveEvent
formSubmit == DialogOpen /\ saveEvent

\* _deleteEvent up to the first await; the button is rendered in edit mode and
\* disabled while deleting or saving
deleteClick(confirmed) ==
  /\ DialogOpen /\ dialogMode = "edit" /\ ~(deleting \/ saving)
  /\ IF UidMissing(editingEventUid)
     THEN /\ errorMessage' = <<getText("uidError")>>
          /\ UNCHANGED <<deleting, tasks>> /\ calls' = << >>
     ELSE IF ~confirmed
     THEN UNCHANGED <<errorMessage, deleting, tasks>> /\ calls' = << >>
     ELSE LET t == NewTask("delete", DeleteServices, DeleteServiceData, FALSE)
          IN /\ HasRoom
             /\ deleting' = TRUE
             /\ errorMessage' = << >>
             /\ tasks' = tasks (+) SetToBag({t})
             /\ calls' = <<CallOf(t, 1)>>
  /\ UNCHANGED <<hostVars, visibleCalendars, draftVars, dialogVars, saving>>
  /\ lastDone' = << >>
  /\ updated(reactiveVars' # reactiveVars, FALSE, << >>)

Outcome(t, ok, thrown) ==
  [kind |-> t.kind, ok |-> ok, accepted |-> t.accepted, tried |-> t.idx,
   rejected |-> t.rejected, thrown |-> thrown]

\* the write's loop calls its next synonym
CallNext(t, u, next) ==
  /\ tasks' = (tasks (-) SetToBag({t})) (+) SetToBag({[u EXCEPT !.idx = next]})
  /\ calls' = <<CallOf(u, next)>>
  /\ lastDone' = << >>
  /\ UNCHANGED <<hostVars, visibleCalendars, draftVars, dialogVars, busyVars>>
  /\ updated(FALSE, FALSE, << >>)

\* the write returned: _closeDialog, refetch, finally
Succeed(t, u) ==
  /\ tasks' = tasks (-) SetToBag({t})
  /\ calls' = << >>
  /\ lastDone' = <<Outcome(u, TRUE, << >>)>>
  /\ CloseDialogState
  /\ IF t.kind = "delete" THEN deleting' = FALSE /\ UNCHANGED saving
     ELSE saving' = FALSE /\ UNCHANGED deleting
  /\ UNCHANGED <<newEventTitle, newEventStart, newEventEnd, newEventCalendar,
                 newEventAllDay, errorMessage>>
  /\ UNCHANGED <<hostVars, visibleCalendars>>
  /\ updated(reactiveVars' # reactiveVars, FALSE,
             UnselectOps(calendar) \o RefetchOps(calendar))

AlwaysCreateLabel(kind, mode) == getText("createError")
\* the label of the catch blocks: by the dialog's mode in _saveEvent
ErrorLabel(kind, mode) ==
  IF kind = "delete" THEN getText("deleteError")
  ELSE IF mode = "edit" THEN getText("updateError") ELSE getText("createError")

FailKeepingBusy(t, u) ==
  LET thrown == Thrown(u, u.lastError)
  IN /\ tasks' = tasks (-) SetToBag({t})
     /\ calls' = << >>
     /\ lastDone' = <<Outcome(u, FALSE, <<thrown>>)>>
     /\ errorMessage' = <<ErrorLabel(t.kind, dialogMode), ": ", thrown.message>>
     /\ UNCHANGED <<saving, deleting>>
     /\ UNCHANGED <<hostVars, visibleCalendars, draftVars, dialogVars>>
     /\ updated(reactiveVars' # reactiveVars, FALSE, << >>)

\* the write threw: catch, finally
Fail(t, u) ==
  LET thrown == Thrown(u, u.lastError)
  IN /\ tasks' = tasks (-) SetToBag({t})
     /\ calls' = << >>
     /\ lastDone' = <<Outcome(u, FALSE, <<thrown>>)>>
     /\ errorMessage' = <<ErrorLabel(t.kind, dialogMode), ": ", thrown.message>>
     /\ IF t.kind = "delete" THEN deleting' = FALSE /\ UNCHANGED saving
        ELSE saving' = FALSE /\ UNCHANGED deleting
     /\ UNCHANGED <<hostVars, visibleCalendars, draftVars, dialogVars>>
     /\ updated(reactiveVars' # reactiveVars, FALSE, << >>)

\* the backend accepts the call task t awaits
serviceResolved(t) ==
  LET u == [t EXCEPT !.accepted = @ + 1]
      next == NextSynonym(TRUE, t.services, t.idx)
  IN /\ BagIn(t, tasks)
     /\ IF next # 0 THEN CallNext(t, u, next)
        ELSE Succeed(t, u)

\* the backend rejects the call task t awaits with e
serviceRejected(t, e) ==
  LET u == [t EXCEPT !.lastError = CatchError(@, e), !.rejected = Append(@, e)]
      next == NextSynonym(FALSE, t.services, t.idx)
  IN /\ BagIn(t, tasks)
     /\ IF next # 0 THEN CallNext(t, u, next)
        ELSE Fail(t, u)


\* ------------------------------------------------------------------ inputs
Tasks == BagToSet(tasks)

\* the day cell of each day
DayCellInputs ==
  {[start |-> d * MinutesPerDay, end |-> (d + 1) * MinutesPerDay, allDay |-> TRUE] :
     d \in Days}

\* rendered events of a calendar: a timed one with a uid, an all-day one without
TimedEvent(id, uid) ==
  [title |-> <<"a">>, start |-> MinutesPerDay + 600, end |-> <<MinutesPerDay + 660>>,
   allDay |-> FALSE, description |-> << >>, entityId |-> id, uid |-> uid]
AllDayEvent(id, uid) ==
  [title |-> <<"a">>, start |-> MinutesPerDay, end |-> <<2 * MinutesPerDay>>,
   allDay |-> TRUE, description |-> << >>, entityId |-> id, uid |-> uid]

\* -------------------------------------------- specification: the write path
\* one configuration, few draft values, every answer of the backend
WriteTitles == {<<" ">>, <<"a">>}
WriteSlot ==
  [start |-> MinutesPerDay + 600, end |-> MinutesPerDay + 630, allDay |-> FALSE]
WriteEvents ==
  {TimedEvent("calendar.a", "u1"), AllDayEvent("calendar.b", "")}

Next ==
  \/ setConfig(ConfigAB)
  \/ setHass
  \/ connectedCallback
  \/ disconnectedCallback
  \/ select(WriteSlot)
  \/ \E event \in WriteEvents : eventClick(event)
  \/ \E v \in WriteTitles : titleChanged(v)
  \/ closeDialog
  \/ saveClick
  \/ formSubmit
  \/ \E confirmed \in BOOLEAN : deleteClick(confirmed)
  \/ \E t \in Tasks : serviceResolved(t)
  \/ \E t \in Tasks, e \in ErrorInputs : serviceRejected(t, e)

Spec == Init /\ [][Next]_vars


\* --------------------------------------- specification: the draft's fields
\* every field of the draft edited, saved with the button, one backend error
ConfigEmpty == [calendars |-> << >>, persons |-> << >>]
DraftConfigs == {ConfigAB, ConfigEmpty}
DraftTitles == {<<" ">>, <<" ", "a">>}
DraftDescriptions == {<<" ">>, <<"n", " ">>}
DraftSelections == {WriteSlot} \cup DayCellInputs
DraftEvents == {TimedEvent("calendar.a", "u1"), AllDayEvent("calendar.b", "u1")}
DraftError == [isError |-> TRUE, message |-> "e1"]
\* what the user can type into a start or end input of the current type
DraftDates(allDay) == IF allDay THEN {<<d>> : d \in Days} ELSE {<<d, 0>> : d \in Days}

NextDraft ==
  \/ \E c \in DraftConfigs : setConfig(c)
  \/ setHass
  \/ connectedCallback
  \/ \E info \in DraftSelections : select(info)
  \/ \E event \in DraftEvents : eventClick(event)
  \/ \E v \in DraftTitles : titleChanged(v)
  \/ \E v \in DraftDescriptions : descriptionChanged(v)
  \/ \E v \in DraftDates(newEventAllDay) : startChanged(v)
  \/ \E v \in SeqToSet(ConfigAB.calendars) : calendarChanged(v)
  \/ \E checked \in BOOLEAN : handleAllDayToggle(checked)
  \/ closeDialog
  \/ saveClick
  \/ \E t \in Tasks : serviceResolved(t)
  \/ \E t \in Tasks : serviceRejected(t, DraftError)

SpecDraft == Init /\ [][NextDraft]_vars

\* ------------------------- specification: visibility and the engine's sources
\* every configuration, the chips, the element's lifecycle, and a write
SyncEvents == {AllDayEvent(id, "u1") : id \in {"calendar.a", "calendar.c"}}

NextSync ==
  \/ \E c \in ConfigInputs : setConfig(c)
  \/ setHass
  \/ connectedCallback
  \/ disconnectedCallback
  \/ chipClick
  \/ \E d \in Days : dateClick([date |-> d * MinutesPerDay, allDay |-> TRUE])
  \/ \E event \in SyncEvents : eventClick(event)
  \/ titleChanged(<<"a">>)
  \/ \E v \in DraftDates(newEventAllDay) : endChanged(v)
  \/ closeDialog
  \/ saveClick
  \/ \E t \in Tasks : serviceResolved(t)
  \/ \E t \in Tasks : serviceRejected(t, DraftError)

SpecSync == Init /\ [][NextSync]_vars

\* ------------------------------------------- specification: fetched events
\* rec[key] of a JS object: << >> (undefined) when it has no such property
Prop(rec, key) == IF key \in DOMAIN rec THEN rec[key] ELSE << >>

\* events of the backend's read: start and end hold a dateTime (minutes) or a
\* date (day); description and uid are optional
BackendEvent(dateTime, description, uid) ==
  [summary |-> <<"a">>, description |-> description, uid |-> uid,
   start |-> IF dateTime THEN [dateTime |-> <<MinutesPerDay + 600>>, date |-> << >>]
             ELSE [dateTime |-> << >>, date |-> <<1>>],
   end |-> IF dateTime THEN [dateTime |-> <<MinutesPerDay + 660>>, date |-> << >>]
           ELSE [dateTime |-> << >>, date |-> <<2>>]]

BackendEvents ==
  {BackendEvent(dateTime, description, uid) :
     dateTime \in BOOLEAN, description \in {<< >>, <<<<"n">>>>}, uid \in {<< >>, <<"u1">>}}

\* ev.start.dateTime ?? ev.start.date ?? ''
WhenOf(when) ==
  IF when.dateTime # << >> THEN <<"dateTime", when.dateTime[1]>>
  ELSE IF when.date # << >> THEN <<"date", when.date[1]>> ELSE << >>

\* the events.map of fetchCalendarEvents: the fields it copies
fetchCalendarEvents(ev) ==
  [summary |-> ev.summary, description |-> ev.description,
   start |-> WhenOf(ev.start), end |-> WhenOf(ev.end),
   allDay |-> ev.start.dateTime = << >>]

\* the evs.map of a source's events function
toEventInput(entityId, ev) ==
  [id |-> IF Prop(ev, "uid") # << >> THEN <<Prop(ev, "uid")[1]>>
          ELSE <<entityId, ev.start, ev.end, ev.summary>>,
   title |-> ev.summary, start |-> ev.start, end |-> ev.end, allDay |-> ev.allDay,
   extendedProps |-> [description |-> ev.description, entityId |-> entityId,
                      uid |-> Prop(ev, "uid")]]

\* the instant of a fetched start or end string
InstantOf(when) == IF when[1] = "date" THEN when[2] * MinutesPerDay ELSE when[2]

\* the EventApi the engine hands to eventClick for an input, with the typeof
\* checks of _openEditEventDialog on its extendedProps
EventApiOf(input) ==
  [title |-> input.title, start |-> InstantOf(input.start),
   end |-> <<InstantOf(input.end)>>, allDay |-> input.allDay,
   description |-> IF input.extendedProps.description = << >> THEN << >>
                   ELSE input.extendedProps.description[1],
   entityId |-> input.extendedProps.entityId,
   uid |-> IF input.extendedProps.uid = << >> THEN ""
           ELSE input.extendedProps.uid[1]]

\* the rendered event of calendar entityId for the backend's event ev
Rendered(entityId, ev) == toEventInput(entityId, fetchCalendarEvents(ev))

NextFetch ==
  \/ setConfig(ConfigAB)
  \/ setHass
  \/ connectedCallback
  \/ disconnectedCallback
  \/ \E id \in SeqToSet(ConfigAB.calendars), ev \in BackendEvents :
       eventClick(EventApiOf(Rendered(id, ev)))
  \/ titleChanged(<<"b">>)
  \/ \E checked \in BOOLEAN : handleAllDayToggle(checked)
  \/ closeDialog
  \/ saveClick
  \/ \E confirmed \in BOOLEAN : deleteClick(confirmed)

SpecFetch == Init /\ [][NextFetch]_vars

\* ------------------------------------------ specification: configurations
\* flat lists and person lists with repeated, shared and unlisted ids, in both
\* orders; no hass, so that no engine is built
FlatLists ==
  {<< >>, <<"calendar.a">>, <<"calendar.a", "calendar.a">>,
   <<"calendar.a", "calendar.b">>, <<"calendar.b", "calendar.a">>,
   <<"calendar.c", "calendar.a">>}
PersonLists ==
  {<< >>, <<"calendar.b">>, <<"calendar.a", "calendar.b">>,
   <<"calendar.b", "calendar.c">>, <<"calendar.b", "calendar.b">>}
Person(name, calendars) == [name |-> name, calendars |-> calendars, color |-> ""]
PersonInputs ==
  {<< >>}
  \cup {<<Person("Alice", l)>> : l \in PersonLists}
  \cup {<<Person("Alice", l), Person("Bob", m)>> : l \in PersonLists, m \in PersonLists}
AllConfigs ==
  {[calendars |-> f, persons |-> ps] : f \in FlatLists, ps \in PersonInputs}

NextConfig ==
  \/ \E c \in AllConfigs : setConfig(c)
  \/ connectedCallback
  \/ disconnectedCallback
  \/ chipClick

SpecConfig == Init /\ [][NextConfig]_vars

\* ------------------------------------ specification: the dialog's openers
\* every configuration with its chips, slot and day selections, clicks on a
\* slot, a day and on rendered events, the calendar select of the dialog
SlotClicks ==
  {[date |-> d * MinutesPerDay + 600, allDay |-> FALSE] : d \in Days}
    \cup {[date |-> d * MinutesPerDay, allDay |-> TRUE] : d \in Days}
\* a timed event without end, uid and with a description
OpenEndedEvent(id) ==
  [title |-> <<"b">>, start |-> MinutesPerDay + 600, end |-> << >>,
   allDay |-> FALSE, description |-> <<"n">>, entityId |-> id, uid |-> ""]
SelectEvents ==
  {TimedEvent("calendar.a", "u1"), AllDayEvent("calendar.b", "u2"),
   AllDayEvent("calendar.a", ""), OpenEndedEvent("calendar.c")}

NextSelect ==
  \/ \E c \in ConfigInputs : setConfig(c)
  \/ setHass
  \/ connectedCallback
  \/ chipClick
  \/ \E info \in DraftSelections : select(info)
  \/ \E info \in SlotClicks : dateClick(info)
  \/ \E event \in SelectEvents : eventClick(event)
  \/ \E c \in ConfigInputs : \E v \in SeqToSet(getAllCalendarIds(c)) : calendarChanged(v)
  \/ closeDialog

SpecSelect == Init /\ [][NextSelect]_vars

\* ------------------------------------------ specification: the detachment
\* the element leaves and re-enters the document while chips are toggled,
\* the view is switched, the host updates and writes are in flight
DetachEvents == {TimedEvent("calendar.a", "u1")}

NextDetach ==
  \/ setConfig(ConfigAB)
  \/ setHass
  \/ connectedCallback
  \/ disconnectedCallback
  \/ chipClick
  \/ detachedChipClick
  \/ \E value \in Views : setCalendarView(value)
  \/ select(WriteSlot)
  \/ \E event \in DetachEvents : eventClick(event)
  \/ titleChanged(<<"a">>)
  \/ saveClick
  \/ deleteClick(TRUE)
  \/ \E t \in Tasks : serviceResolved(t)
  \/ \E t \in Tasks : serviceRejected(t, DraftError)

SpecDetach == Init /\ [][NextDetach]_vars

\* ------------------------------------------------- specification: the load
\* the fetches of the sources complete in any order, each with events or an
\* error, while chips rebuild the sources and the host asks for refetches
NextLoad ==
  \/ \E c \in ConfigInputs : setConfig(c)
  \/ setHass
  \/ connectedCallback
  \/ disconnectedCallback
  \/ chipClick
  \/ \E i \in 1..SourceCount : fetchResolved(i)
  \/ \E i \in 1..SourceCount : fetchRejected(i)

SpecLoad == Init /\ [][NextLoad]_vars

\* ------------------------------------------ specification: the scroll time
\* configurations with and without initial_time: padded or not, hours,
\* minutes and seconds in and out of range, malformed components
TimePads == {<<<< >>, << >>>>, <<<<" ">>, <<" ">>>>, <<<< >>, <<"x">>>>}
HourInputs == {<<"0", "6">>, <<"2", "3">>, <<"2", "4">>, <<"6">>, <<"x", "1">>}
MinuteInputs == {<<"0", "0">>, <<"5", "9">>, <<"6", "0">>}
SecondInputs == {<< >>, <<":", "0", "0">>, <<":", "5", "9">>, <<":", "6", "0">>, <<":", "5">>}
TimeInputs ==
  {<< >>, <<" ">>}
    \cup {pad[1] \o h \o <<":">> \o m \o sec \o pad[2] :
            pad \in TimePads, h \in HourInputs, m \in MinuteInputs, sec \in SecondInputs}
TimedConfigs ==
  {ConfigAB} \cup {[calendars |-> <<"calendar.a">>, persons |-> << >>, initial_time |-> t] :
                     t \in TimeInputs}

NextScroll ==
  \/ \E c \in TimedConfigs : setConfig(c)
  \/ setHass
  \/ connectedCallback
  \/ disconnectedCallback

SpecScroll == Init /\ [][NextScroll]_vars

\* ------------------------------------------ specification: the all-day flag
\* drafts seeded timed and all-day whose start and end inputs are retyped or
\* cleared between toggles of the flag
ClearedOrDate(allDay) == {<< >>} \cup DraftDates(allDay)

NextToggle ==
  \/ setConfig(ConfigAB)
  \/ setHass
  \/ connectedCallback
  \/ \E info \in DraftSelections : select(info)
  \/ \E event \in DraftEvents : eventClick(event)
  \/ \E v \in ClearedOrDate(newEventAllDay) : startChanged(v)
  \/ \E v \in ClearedOrDate(newEventAllDay) : endChanged(v)
  \/ \E checked \in BOOLEAN : handleAllDayToggle(checked)
  \/ closeDialog

SpecToggle == Init /\ [][NextToggle]_vars

\* ------------------------------------------- specification: the busy flags
\* saves and deletes of events with and without uid; every promise of the
\* backend is settled in the end, the deletes' and the saves' alike
BusyEvents == {TimedEvent("calendar.a", "u1"), AllDayEvent("calendar.b", "")}

NextBusy ==
  \/ setConfig(ConfigAB)
  \/ setHass
  \/ connectedCallback
  \/ \E event \in BusyEvents : eventClick(event)
  \/ closeDialog
  \/ saveClick
  \/ formSubmit
  \/ deleteClick(TRUE)
  \/ \E t \in Tasks : serviceResolved(t)
  \/ \E t \in Tasks : serviceRejected(t, DraftError)

\* the backend settles the call a write of the given kinds awaits
Settles(kinds) ==
  \E t \in Tasks :
    t.kind \in kinds /\ (serviceResolved(t) \/ serviceRejected(t, DraftError))

SpecBusy ==
  /\ Init /\ [][NextBusy]_vars
  /\ WF_vars(Settles({"create", "update"}))
  /\ WF_vars(Settles({"delete"}))

\* ------------------------------------------------------------------- claims
Last(q) == q[Len(q)]

\* every character is a space
IsBlank(s) == \A i \in 1..Len(s) : s[i] = " "

\* the steps that run _saveEvent and _deleteEvent
SaveAttempt == saveClick \/ formSubmit
DeleteAttempt == \E confirmed \in BOOLEAN : deleteClick(confirmed)

\* the last step ended a write of one of these kinds
Ended(kinds) == lastDone # << >> /\ lastDone[1].kind \in kinds

IdentityRefused ==
  /\ errorMessage' = <<getText("uidError")>>
  /\ calls' = << >> /\ tasks' = tasks
  /\ newEventData' = newEventData /\ newEventData' # << >>

UpdateOrDeleteCallsCarryUid ==
  \A i \in 1..Len(calls) :
    calls[i].kind \in {"update", "delete"} =>
      /\ calls[i].data.uid # ""
      /\ calls[i].attempt = 1 => calls[i].data.uid = editingEventUid

\* C1 as stated: a call that updates or deletes carries a uid, and every save
\* or delete attempted in edit mode without a uid sets the cannot-be-edited
\* message, keeps the dialog open and calls nothing.
C1_AsStated ==
  /\ [](UpdateOrDeleteCallsCarryUid)
  /\ [][(dialogMode = "edit" /\ editingEventUid = "" /\ (SaveAttempt \/ DeleteAttempt))
          => IdentityRefused]_vars

\* C1 amended: every update or delete call carries the non-empty uid the draft
\* had when the write was submitted; a delete attempted in edit mode without a
\* uid, and a save attempted there whose title and calendar pass validation,
\* sets the cannot-be-edited message, keeps the dialog open and calls nothing.
C1_NoWriteWithoutUid ==
  /\ [](UpdateOrDeleteCallsCarryUid)
  /\ [][(/\ dialogMode = "edit" /\ editingEventUid = ""
         /\ \/ DeleteAttempt
            \/ SaveAttempt /\ ~IsBlank(newEventTitle) /\ newEventCalendar # "")
          => IdentityRefused]_vars

C1_Witness ==
  /\ newEventData # << >> /\ dialogMode = "edit" /\ editingEventUid = ""
  /\ errorMessage = <<getText("uidError")>> /\ calls = << >>

FailedWriteStep(kinds) ==
  /\ lastDone' # << >> /\ ~lastDone'[1].ok /\ lastDone'[1].kind \in kinds

FailureKeepsDraft ==
  /\ newEventData' = newEventData /\ dialogMode' = dialogMode
  /\ draftVars' = draftVars
  /\ calls' = << >>

C6_OneWriteOutstanding == InFlight <= 1

SynonymOrder(kind) ==
  IF kind = "update" THEN <<"edit_event", "update_event">>
  ELSE <<"delete_event", "remove_event">>

CallsInPriorityOrder ==
  \A i \in 1..Len(calls) :
    calls[i].kind \in {"update", "delete"} =>
      calls[i].service = SynonymOrder(calls[i].kind)[calls[i].attempt]

\* an accepted call is the last of its write; a failed write called both synonyms
StopsAtFirstAccepted ==
  Ended({"update", "delete"}) =>
    IF lastDone[1].ok
    THEN lastDone[1].accepted = 1 /\ lastDone[1].tried = Len(lastDone[1].rejected) + 1
    ELSE lastDone[1].tried = 2 /\ Len(lastDone[1].rejected) = 2

ClosedThenRefetched ==
  /\ newEventData = << >> /\ dialogMode = "create" /\ editingEventUid = ""
  /\ (calendar # << >> /\ EngineOp("render", "") \notin SeqToSet(engineOps)) =>
       engineOps = <<EngineOp("unselect", "")>> \o OpsOver("refetch", SourceIds(calendar))

\* C8: every write has at most one accepted call and reports success iff a
\* call was accepted; an update whose edit_event call is accepted calls no
\* other synonym, closes the dialog and refetches the sources.
C8_OneMutation ==
  /\ lastDone # << >> =>
       /\ lastDone[1].accepted <= 1
       /\ lastDone[1].ok <=> lastDone[1].accepted = 1
  /\ (Ended({"update"}) /\ lastDone[1].ok) => ClosedThenRefetched
  /\ (Ended({"update"}) /\ lastDone[1].accepted >= 1 /\ lastDone[1].rejected = << >>) =>
       lastDone[1].tried = 1 /\ lastDone[1].ok

C8_Witness ==
  /\ Ended({"update"}) /\ lastDone[1].ok /\ lastDone[1].tried = 2
  /\ calendar # << >> /\ Len(engineOps) = 3

\* C2: while the element is connected and has an engine instance, the ids of
\* the engine's event sources are exactly the ids of allIds that are in the
\* visibility set, one source each, in allIds order.
C2_SourcesMatchVisibility ==
  (isConnected /\ calendar # << >> /\ config # << >>) =>
    SourceIds(calendar) = FilterSeq(getAllCalendarIds(config[1]), visibleCalendars)

\* C3: a save whose title is blank after trimming, or whose calendar is empty,
\* sets the validation message (title first), leaves the dialog open with its
\* mode and draft fields as they were, leaves the busy flags as they were and
\* calls no service.
C3_ValidationKeepsDialog ==
  [][(SaveAttempt /\ (IsBlank(newEventTitle) \/ newEventCalendar = "")) =>
       /\ errorMessage' = <<IF IsBlank(newEventTitle) THEN "Please enter a title."
                            ELSE "Please select a calendar.">>
       /\ newEventData' = newEventData /\ newEventData' # << >>
       /\ dialogVars' = dialogVars /\ draftVars' = draftVars
       /\ saving' = saving /\ deleting' = deleting
       /\ calls' = << >> /\ tasks' = tasks]_vars

C3_Witness ==
  /\ newEventData # << >> /\ ~saving /\ tasks = EmptyBag
  /\ newEventTitle # << >> /\ IsBlank(newEventTitle)
  /\ errorMessage = <<"Please enter a title.">>

SucceededWriteStep(kinds) ==
  /\ lastDone' # << >> /\ lastDone'[1].ok /\ lastDone'[1].kind \in kinds

\* C5: the step in which a create or update succeeds closes the dialog (draft
\* discarded, mode create, uid cleared) and, where an engine instance exists,
\* unselects and then asks each of its sources to refetch, in that order,
\* leaving the instance and its sources as they were; no source is removed
\* or added.
C5_CloseThenRefetch ==
  [][SucceededWriteStep({"create", "update"}) =>
       /\ newEventData' = << >> /\ dialogMode' = "create" /\ editingEventUid' = ""
       /\ calendar # << >> =>
            /\ calendar' = calendar
            /\ engineOps' = <<EngineOp("unselect", "")>> \o
                              [i \in 1..Len(calendar[1].sources) |->
                                 EngineOp("refetch", calendar[1].sources[i].id)]
       /\ \A i \in 1..Len(engineOps') :
            engineOps'[i].op \notin {"remove", "addEventSource"}]_vars

C5_Witness ==
  /\ Ended({"create"}) /\ lastDone[1].ok
  /\ newEventData = << >> /\ dialogMode = "create" /\ editingEventUid = ""
  /\ calendar # << >> /\ Len(calendar[1].sources) = 2
  /\ engineOps = <<EngineOp("unselect", ""), EngineOp("refetch", "calendar.a"),
                   EngineOp("refetch", "calendar.b")>>

DatePair == {"start_date", "end_date"}
DateTimePair == {"start_date_time", "end_date_time"}

\* C9: the payload of every create or update call holds the date pair and not
\* the date-time pair when the draft was all-day at submit, and the date-time
\* pair and not the date pair when it was not.
C9_OneDatePair ==
  \A i \in 1..Len(calls) :
    calls[i].kind \in {"create", "update"} =>
      /\ (DOMAIN calls[i].data) \cap (DatePair \cup DateTimePair) =
           IF calls[i].allDay THEN DatePair ELSE DateTimePair
      /\ calls[i].attempt = 1 => calls[i].allDay = newEventAllDay

C9_Witness ==
  /\ calls # << >> /\ calls[1].kind = "update" /\ calls[1].allDay
  /\ "start_date" \in DOMAIN calls[1].data
  /\ "start_date_time" \notin DOMAIN calls[1].data

\* the payload of an update of the draft, addressed to calendar entity
PayloadFor(entity) ==
  LET identity == [entity_id |-> entity, uid |-> editingEventUid,
                   summary |-> Trim(newEventTitle)]
      dates == IF newEventAllDay
               THEN [start_date |-> newEventStart, end_date |-> newEventEnd]
               ELSE [start_date_time |-> newEventStart, end_date_time |-> newEventEnd]
  IN IF IsBlank(newEventDescription) THEN identity @@ dates
     ELSE identity @@ dates @@ [description |-> Trim(newEventDescription)]

UpdateIssued == calls # << >> /\ calls[1].kind = "update" /\ calls[1].attempt = 1

\* C10 as stated: the first call of an update save carries the non-empty uid,
\* the calendar selected in the dialog as entity_id, the trimmed title, the
\* description only when not blank, and the date fields chosen by allDay.
C10_AsStated ==
  UpdateIssued =>
    /\ calls[1].data.uid # ""
    /\ calls[1].data = PayloadFor(newEventCalendar)

\* C10 amended: as stated, except that entity_id is the calendar of the event
\* being edited, whatever calendar is selected in the dialog.
C10_UpdatePayload ==
  UpdateIssued =>
    /\ calls[1].data.uid # ""
    /\ calls[1].data = PayloadFor(editingEventEntityId)

C10_Witness ==
  /\ UpdateIssued /\ calls[1].service = "edit_event"
  /\ newEventCalendar # editingEventEntityId
  /\ "description" \in DOMAIN calls[1].data

\* a delete call is made in edit mode and carries the draft's non-empty uid
DeleteCallsFromEditWithUid ==
  \A i \in 1..Len(calls) :
    calls[i].kind = "delete" =>
      /\ calls[i].data.uid # ""
      /\ calls[i].attempt = 1 =>
           /\ dialogMode = "edit" /\ newEventData # << >>
           /\ calls[i].data.uid = editingEventUid

\* the user declines the confirmation of a delete that passed the uid check
DeleteDeclined == deleteClick(FALSE) /\ editingEventUid # ""

DeclineChangesNothing ==
  /\ calls' = << >> /\ tasks' = tasks
  /\ dialogVars' = dialogVars /\ draftVars' = draftVars
  /\ busyVars' = busyVars /\ engineVars' = engineVars

DeleteSuccessClosesAndRefetches ==
  /\ newEventData' = << >> /\ dialogMode' = "create" /\ editingEventUid' = ""
  /\ calendar # << >> =>
       /\ calendar' = calendar
       /\ engineOps' = <<EngineOp("unselect", "")>> \o
                         [i \in 1..Len(calendar[1].sources) |->
                            EngineOp("refetch", calendar[1].sources[i].id)]

DayCellSelect == \E info \in DayCellInputs : select(info)
DayCellDateClick ==
  \E d \in Days : dateClick([date |-> d * MinutesPerDay, allDay |-> TRUE])

\* the seeded draft is all-day and its end date, made exclusive, is the day
\* after its start date
SeedsOneDay ==
  /\ newEventAllDay' /\ dialogMode' = "create" /\ newEventData' # << >>
  /\ newEventEnd'[1] + 1 = newEventStart'[1] + 1

\* C12: a click on a day cell (allDay, one-day window) seeds a create draft
\* whose end date plus one day is exactly one day after its start date, for
\* the select callback and for the dateClick callback.
C12_DayCellSeedsOneDay ==
  [][(DayCellSelect \/ DayCellDateClick) => SeedsOneDay]_vars

ToggleStep == \E checked \in BOOLEAN : handleAllDayToggle(checked)

\* the calendar date of a date or date-time input value
DateOf(value) == value[1]

\* C13: no all-day toggle changes the calendar date of the draft's start or
\* end, and an all-day value is a date alone; so the dates of every all-day
\* conversion equal those of the first, however often the flag is toggled.
C13_ToggleKeepsDates ==
  [][ToggleStep =>
       /\ DateOf(newEventStart') = DateOf(newEventStart)
       /\ DateOf(newEventEnd') = DateOf(newEventEnd)
       /\ newEventAllDay' => Len(newEventStart') = 1 /\ Len(newEventEnd') = 1]_vars

\* a draft seeded timed at 10:00 that has been toggled to all-day
C13_Witness ==
  /\ newEventData # << >> /\ dialogMode = "create" /\ ~newEventData[1].allDay
  /\ newEventData[1].start % MinutesPerDay # 0
  /\ newEventAllDay
  /\ newEventStart = <<newEventData[1].start \div MinutesPerDay>>
  /\ newEventEnd = <<newEventData[1].end \div MinutesPerDay>>

\* what a toggle to checked makes of the draft's start, end and flag
Converted(checked) ==
  IF checked = newEventAllDay
  THEN draftVars' = draftVars
  ELSE /\ newEventAllDay' = checked
       /\ IF checked
          THEN /\ newEventStart' = <<DateOf(newEventStart)>>
               /\ newEventEnd' = <<DateOf(newEventEnd)>>
          ELSE /\ newEventStart' = <<DateOf(newEventStart), 0>>
               /\ newEventEnd' = <<DateOf(newEventEnd), 0>>

\* C14: a toggle to all-day turns start and end into their local calendar
\* dates, a toggle to timed turns them into 00:00 on the same dates, and a
\* toggle to the value already set changes no draft field; the dialog, its
\* mode and the other fields are untouched in each case.
C14_ToggleConverts ==
  [][\A checked \in BOOLEAN :
       handleAllDayToggle(checked) =>
         /\ Converted(checked)
         /\ dialogVars' = dialogVars
         /\ newEventTitle' = newEventTitle /\ newEventCalendar' = newEventCalendar
         /\ newEventDescription' = newEventDescription]_vars

\* a draft seeded all-day that has been toggled to timed
C14_Witness ==
  /\ newEventData # << >> /\ newEventData[1].allDay /\ ~newEventAllDay
  /\ newEventStart = <<newEventData[1].start \div MinutesPerDay, 0>>
  /\ Len(newEventEnd) = 2 /\ newEventEnd[2] = 0

\* some person of cfg lists id and defines a color
HasPersonColor(id, cfg) ==
  \E i \in 1..Len(cfg.persons) :
    id \in SeqToSet(cfg.persons[i].calendars) /\ cfg.persons[i].color # ""

\* the position of id in allIds, from 0
PositionInAllIds(id, cfg) ==
  (CHOOSE i \in 1..Len(getAllCalendarIds(cfg)) : getAllCalendarIds(cfg)[i] = id) - 1

PaletteAt(index) == DEFAULT_COLORS[(index % Len(DEFAULT_COLORS)) + 1]

\* a step that rebuilds the sources of a live engine (a chip click)
RebuildStep ==
  /\ chipClick
  /\ calendar # << >> /\ calendar' # << >>
  /\ \E i \in 1..Len(engineOps') : engineOps'[i].op \in {"remove", "addEventSource"}

\* C15: every rebuild gives a calendar without a person color the palette
\* entry at its position in allIds modulo the palette size, whatever the
\* visibility set is.
C15_ColorByAllIdsPosition ==
  [][RebuildStep =>
       \A i \in 1..Len(calendar'[1].sources) :
         LET src == calendar'[1].sources[i]
         IN ~HasPersonColor(src.id, config[1]) =>
              src.color = PaletteAt(PositionInAllIds(src.id, config[1]))]_vars

\* the color of the first person of cfg that lists id and defines a color
FirstPersonColor(id, cfg) ==
  LET i == CHOOSE k \in 1..Len(cfg.persons) :
             /\ id \in SeqToSet(cfg.persons[k].calendars) /\ cfg.persons[k].color # ""
             /\ \A j \in 1..(k - 1) :
                  ~(id \in SeqToSet(cfg.persons[j].calendars) /\ cfg.persons[j].color # "")
  IN cfg.persons[i].color

\* how many visible ids precede id in allIds
VisibleBefore(id, cfg, vis) ==
  Cardinality({j \in 1..PositionInAllIds(id, cfg) : getAllCalendarIds(cfg)[j] \in vis})

\* the id -> color mapping as a function of the configuration and the
\* visibility set alone
ColorMapOf(cfg, vis) ==
  [id \in SeqToSet(getAllCalendarIds(cfg)) \cap vis |->
     IF HasPersonColor(id, cfg) THEN FirstPersonColor(id, cfg)
     ELSE PaletteAt(VisibleBefore(id, cfg, vis))]

\* the id -> color mapping of the engine's sources
SourceColors(cal) ==
  [id \in {cal[1].sources[i].id : i \in 1..Len(cal[1].sources)} |->
     LET i == CHOOSE k \in 1..Len(cal[1].sources) : cal[1].sources[k].id = id
     IN cal[1].sources[i].color]

\* a step that builds or rebuilds the sources of the engine
SourcesBuilt ==
  /\ calendar' # << >>
  /\ \E i \in 1..Len(engineOps') :
       engineOps'[i].op \in {"render", "remove", "addEventSource"}

\* C16: whenever the sources are built or rebuilt, their id -> color mapping
\* is a function of the configuration and the visibility set alone, so two
\* rebuilds with the same configuration and visibility set give the same
\* mapping whatever toggles came before.
C16_ColorsDeterministic ==
  [][SourcesBuilt => SourceColors(calendar') = ColorMapOf(config'[1], visibleCalendars')]_vars

\* every calendar is visible again after a hide and a show
C16_Witness ==
  /\ calendar # << >> /\ config # << >>
  /\ \E i \in 1..Len(engineOps) : engineOps[i].op = "addEventSource"
  /\ visibleCalendars = SeqToSet(getAllCalendarIds(config[1]))
  /\ Len(calendar[1].sources) = 3
  /\ SourceColors(calendar) = ColorMapOf(config[1], visibleCalendars)

\* the rendered event carries its calendar and the backend's uid
MetadataCarried(id, ev) ==
  /\ Rendered(id, ev).extendedProps.entityId = id
  /\ Rendered(id, ev).extendedProps.uid = ev.uid
  /\ ev.uid # << >> => Rendered(id, ev).id = ev.uid

\* C17: every rendered event that is clicked carries its calendar and the
\* backend's uid (as metadata and, when there is one, as its id), and the
\* click on the rendered event of a backend event with a uid opens a draft
\* with that uid.
C17_RenderedEventCarriesUid ==
  [][\A id \in SeqToSet(ConfigAB.calendars), ev \in BackendEvents :
       eventClick(EventApiOf(Rendered(id, ev))) =>
         /\ MetadataCarried(id, ev)
         /\ editingEventEntityId' = id
         /\ (ev.uid # << >>) => editingEventUid' = ev.uid[1]]_vars

\* the flat list followed by each person's list, as configured
Listed(cfg) == cfg.calendars \o PersonCalendars(cfg)

\* the first position of id in the sequence q
FirstIndex(q, id) == CHOOSE i \in 1..Len(q) : q[i] = id /\ \A j \in 1..(i - 1) : q[j] # id

NoDuplicates(q) == \A i, j \in 1..Len(q) : i # j => q[i] # q[j]

\* C18: allIds has no duplicate, holds exactly the ids of the flat list and of
\* the persons' lists, and orders them by their first occurrence in the flat
\* list followed by the persons' lists in configuration order.
C18_AllIdsUniqueFirstSeen ==
  config # << >> =>
    LET all == getAllCalendarIds(config[1])
        listed == Listed(config[1])
    IN /\ NoDuplicates(all)
       /\ SeqToSet(all) = SeqToSet(listed)
       /\ \A i, j \in 1..Len(all) :
            i < j => FirstIndex(listed, all[i]) < FirstIndex(listed, all[j])

\* a configuration that repeats an id in a list and across lists
C18_Witness ==
  /\ config # << >>
  /\ ~NoDuplicates(config[1].calendars)
  /\ Len(config[1].persons) = 2
  /\ Len(getAllCalendarIds(config[1])) = 3
  /\ Len(Listed(config[1])) = 6

\* the groups of cfg that hold id
GroupsOf(id, cfg) ==
  {i \in 1..Len(personGroups(cfg)) : id \in SeqToSet(personGroups(cfg)[i].ids)}

ClaimedIds(cfg) ==
  UNION {SeqToSet(cfg.persons[i].calendars) : i \in 1..Len(cfg.persons)}

\* C19: every id of allIds is in exactly one group; the groups are the
\* persons in configuration order, each with its list, followed by one
\* single-id group keyed by the id for each id no person lists, and no
\* synthetic group for an id a person lists.
C19_EveryIdInOneGroup ==
  config # << >> =>
    LET cfg == config[1]
        groups == personGroups(cfg)
        n == Len(cfg.persons)
    IN /\ \A id \in SeqToSet(getAllCalendarIds(cfg)) : Cardinality(GroupsOf(id, cfg)) = 1
       /\ Len(groups) >= n
       /\ \A i \in 1..n :
            groups[i].key = cfg.persons[i].name /\ groups[i].ids = cfg.persons[i].calendars
       /\ \A i \in (n + 1)..Len(groups) :
            groups[i].ids = <<groups[i].key>> /\ groups[i].key \notin ClaimedIds(cfg)
       /\ \A id \in SeqToSet(getAllCalendarIds(cfg)) \ ClaimedIds(cfg) :
            \E i \in (n + 1)..Len(groups) : groups[i].key = id

\* the toggle of group i by its chip sets that group's visibility to the
\* toggled value and leaves every other group's visibility as it was
ToggleDecidesOwnGroup(i) ==
  LET groups == personGroups(config[1])
      shown == ~isGroupVisible(groups[i], visibleCalendars)
  IN setGroupVisible(groups[i], shown) =>
       /\ isGroupVisible(groups[i], visibleCalendars') = shown
       /\ \A j \in 1..Len(groups) :
            j # i => (isGroupVisible(groups[j], visibleCalendars')
                        = isGroupVisible(groups[j], visibleCalendars))

\* C20: a group is visible iff the most recent toggle applied to it made it
\* visible: each toggle sets the visibility of its own group to the toggled
\* value, and no toggle changes the visibility of another group.
C20_VisibleIffLastToggle ==
  [][IF config = << >> THEN TRUE
     ELSE \A i \in 1..Len(personGroups(config[1])) : ToggleDecidesOwnGroup(i)]_vars

\* the visibility set and the engine's source ids after one and after two
\* calls of setGroupVisible(group, v) from the current state
VisibleAfter(vis, group, v, times) ==
  IF times = 1 THEN GroupWrite(vis, group, v)
  ELSE GroupWrite(GroupWrite(vis, group, v), group, v)

SourcesAfter(group, v, times) ==
  LET once == RebuiltCalendar(calendar, config[1],
                              VisibleAfter(visibleCalendars, group, v, 1))
  IN IF times = 1 THEN SourceIds(once)
     ELSE SourceIds(RebuiltCalendar(once, config[1],
                                    VisibleAfter(visibleCalendars, group, v, 2)))

\* C21: from every state, for every group and value, a second
\* setGroupVisible(group, v) leaves the visibility set, and on a live engine
\* the source ids, as the first call left them.
C21_SetGroupVisibleIdempotent ==
  config # << >> =>
    \A i \in 1..Len(personGroups(config[1])), v \in BOOLEAN :
      LET group == personGroups(config[1])[i]
      IN /\ VisibleAfter(visibleCalendars, group, v, 2)
              = VisibleAfter(visibleCalendars, group, v, 1)
         /\ EngineLive => SourcesAfter(group, v, 2) = SourcesAfter(group, v, 1)

\* a live engine whose sources a chip click has rebuilt with a group hidden
C21_Witness ==
  /\ EngineLive /\ Len(personGroups(config[1])) > 1
  /\ \E i \in 1..Len(engineOps) : engineOps[i].op = "remove"
  /\ \E i \in 1..Len(personGroups(config[1])) :
       ~isGroupVisible(personGroups(config[1])[i], visibleCalendars)
  /\ SourceIds(calendar) = VisibleIds(config[1], visibleCalendars)

\* the toggle of group i by its chip writes every member and nothing else
WritesWholeGroup(i) ==
  LET group == personGroups(config[1])[i]
      ids == SeqToSet(group.ids)
      shown == ~isGroupVisible(group, visibleCalendars)
  IN setGroupVisible(group, shown) =>
       /\ shown => ids \subseteq visibleCalendars'
       /\ ~shown => ids \cap visibleCalendars' = {}
       /\ visibleCalendars' \ ids = visibleCalendars \ ids

\* a change of the visibility set is a reset to all ids or the write of all
\* members of one group
WholeWritesOnly ==
  visibleCalendars' # visibleCalendars =>
    \/ visibleCalendars' = SeqToSet(getAllCalendarIds(config'[1]))
    \/ \E i \in 1..Len(personGroups(config[1])) :
         LET ids == SeqToSet(personGroups(config[1])[i].ids)
         IN \/ visibleCalendars' = visibleCalendars \cup ids
            \/ visibleCalendars' = visibleCalendars \ ids

\* C22: a toggle to visible puts every member id of the group into the
\* visibility set, a toggle to hidden removes every one, ids outside the
\* group keep their membership, and no step leaves a set in which only some
\* members were written.
C22_GroupWrittenTogether ==
  [][IF config' = << >> THEN TRUE
     ELSE /\ WholeWritesOnly
          /\ config # << >> =>
               \A i \in 1..Len(personGroups(config[1])) : WritesWholeGroup(i)]_vars

\* a group of two calendars hidden by its chip while another stays visible
C22_Witness ==
  /\ config # << >> /\ isConnected /\ visibleCalendars # {}
  /\ \E i \in 1..Len(personGroups(config[1])) :
       LET ids == SeqToSet(personGroups(config[1])[i].ids)
       IN Cardinality(ids) = 2 /\ ids \cap visibleCalendars = {}

\* a group counts as visible exactly when one of its members is in the set
VisibleIffSomeMember ==
  config # << >> =>
    \A i \in 1..Len(personGroups(config[1])) :
      LET group == personGroups(config[1])[i]
      IN isGroupVisible(group, visibleCalendars)
           <=> SeqToSet(group.ids) \cap visibleCalendars # {}

\* an assignment of configuration c leaves exactly the ids c lists
ResetsToListed(c) == setConfig(c) => visibleCalendars' = SeqToSet(Listed(c))

\* C23: every assignment of a configuration resets the visibility set to
\* exactly the ids of the new configuration, whatever was hidden or
\* configured before, and a group is visible iff at least one of its member
\* ids is in the set.
C23_ConfigResetsVisibility ==
  /\ [](VisibleIffSomeMember)
  /\ [][\A c \in AllConfigs : ResetsToListed(c)]_vars

\* a configuration with several groups, all of whose ids are visible
C23_Witness ==
  /\ config # << >> /\ isConnected
  /\ Len(personGroups(config[1])) > 1
  /\ visibleCalendars = SeqToSet(Listed(config[1]))
  /\ Cardinality(visibleCalendars) = 3

\* the visibility set after one click on the chip of group
ClickedOnce(vis, group) == GroupWrite(vis, group, ~isGroupVisible(group, vis))

\* C24: a click on a person chip inverts the visible state of its group, and
\* two consecutive clicks on the same chip restore both that state and the
\* visibility set.
C24_TwoClicksRestore ==
  (isConnected /\ hasUpdated /\ config # << >>
     /\ Len(personGroups(config[1])) > 1) =>
    \A i \in 1..Len(personGroups(config[1])) :
      LET group == personGroups(config[1])[i]
          once == ClickedOnce(visibleCalendars, group)
          twice == ClickedOnce(once, group)
      IN /\ isGroupVisible(group, once) = ~isGroupVisible(group, visibleCalendars)
         /\ isGroupVisible(group, twice) = isGroupVisible(group, visibleCalendars)
         /\ twice = visibleCalendars

\* the window a selection or a click on a slot or day hands to the dialog
SelectionWindows ==
  DraftSelections
    \cup {[start |-> c.date, end |-> c.date + 60, allDay |-> c.allDay] : c \in SlotClicks}

\* a step of the select or dateClick callback for window w, the dialog closed
SelectionStep(w) ==
  /\ newEventData = << >>
  /\ \/ select(w)
     \/ \E c \in SlotClicks : c.date = w.start /\ c.date + 60 = w.end
                                /\ c.allDay = w.allDay /\ dateClick(c)

\* the draft of a create dialog seeded from window w, the calendar apart
SeededFromWindow(w) ==
  /\ newEventData' = <<w>>
  /\ dialogMode' = "create"
  /\ newEventAllDay' = w.allDay
  /\ newEventStart' = DraftStart(w.start, w.allDay)
  /\ newEventEnd' = DraftEnd(w.end, w.allDay)
  /\ newEventTitle' = << >> /\ newEventDescription' = << >>
  /\ errorMessage' = << >>
  /\ editingEventUid' = "" /\ editingEventEntityId' = ""

FirstVisibleId ==
  LET ids == VisibleIds(config[1], visibleCalendars)
  IN IF ids = << >> THEN "" ELSE ids[1]

\* C25 as stated: the create dialog opened by a selection targets the first
\* visible calendar id.
C25_AsStated ==
  [][\A w \in SelectionWindows :
       SelectionStep(w) => SeededFromWindow(w) /\ newEventCalendar' = FirstVisibleId]_vars

\* C25: a slot or day selection while the dialog is closed opens it in create
\* mode with the selected window as start and end (an all-day end shown as
\* the day before the exclusive end), allDay from the selection, empty title
\* and description, no error message and no uid; the target calendar is the
\* one selected before when it is still a configured id, whether visible or
\* not, and the first of all configured ids otherwise.
C25_SelectionOpensCreate ==
  [][\A w \in SelectionWindows :
       SelectionStep(w) =>
         /\ SeededFromWindow(w)
         /\ newEventCalendar' =
              IF newEventCalendar \in SeqToSet(Listed(config[1])) THEN newEventCalendar
              ELSE IF Listed(config[1]) = << >> THEN "" ELSE Listed(config[1])[1]]_vars

\* a create dialog that targets the first id while that calendar is hidden
\* and another one is visible
C25_Witness ==
  /\ DialogOpen /\ dialogMode = "create" /\ newEventTitle = << >>
  /\ visibleCalendars # {}
  /\ newEventCalendar \notin visibleCalendars
  /\ newEventCalendar = getAllCalendarIds(config[1])[1]

\* the end of a clicked event: its own, or one hour after its start
EventEnd(event) == IF event.end = << >> THEN event.start + 60 ELSE event.end[1]

\* the draft after a click on event: its fields and its metadata
SeededFromEvent(event) ==
  /\ newEventData' = <<[start |-> event.start, end |-> EventEnd(event),
                        allDay |-> event.allDay]>>
  /\ newEventTitle' = event.title
  /\ newEventDescription' = event.description
  /\ newEventAllDay' = event.allDay
  /\ newEventStart' = IF event.allDay THEN formatDateLocal(event.start)
                      ELSE formatDateTimeLocal(event.start)
  /\ newEventEnd' = IF event.allDay THEN formatDateLocal(EventEnd(event) - MinutesPerDay)
                    ELSE formatDateTimeLocal(EventEnd(event))
  /\ editingEventEntityId' = event.entityId
  /\ newEventCalendar' = event.entityId
  /\ editingEventUid' = event.uid
  /\ errorMessage' = << >>

CancelDiscards ==
  /\ newEventData' = << >> /\ dialogMode' = "create"
  /\ editingEventUid' = "" /\ editingEventEntityId' = ""
  /\ calls' = << >> /\ tasks' = tasks
  /\ visibleCalendars' = visibleCalendars

\* C27 as stated: a cancel from any open state discards the draft, issues no
\* backend call and leaves the visibility set and the engine's sources
\* unchanged.
C27_AsStated == [][closeDialog => CancelDiscards /\ calendar' = calendar]_vars

\* C27: cancelling or dismissing the dialog from any open state closes it,
\* puts the mode back to create and empties the uid and the entity id of the
\* edited event; it issues no backend call and leaves the writes in flight
\* and the visibility set as they are. An existing engine keeps its sources
\* and is only asked to drop its selection; when the element has been
\* re-attached and has no engine yet, the update that follows the cancel
\* creates it with the sources of the configuration and the visibility set.
C27_CancelDiscardsDraft ==
  [][closeDialog =>
       /\ CancelDiscards
       /\ calendar # << >> =>
            /\ calendar' = calendar
            /\ engineOps' = <<EngineOp("unselect", "")>>
       /\ calendar = << >> =>
            \/ calendar' = << >> /\ engineOps' = << >>
            \/ /\ calendar' = <<[sources |-> SourcesFor(config[1], visibleCalendars),
                                  view |-> currentView,
                                  scrollTime |-> getInitialScrollTime(config)]>>
               /\ engineOps' = <<EngineOp("render", "")>>]_vars

\* the dialog just cancelled while a write is in flight and a group is hidden
C27_Witness ==
  /\ newEventData = << >> /\ saving /\ tasks # EmptyBag
  /\ EngineLive /\ engineOps = UnselectOps(calendar)
  /\ visibleCalendars # SeqToSet(getAllCalendarIds(config[1]))

\* C28: while the element is detached there is no engine instance, and no
\* step taken while it is detached (a group toggle, a host state update, the
\* completion of a save or delete in flight) makes an engine call or creates
\* an engine.
C28_DetachedTouchesNoEngine ==
  /\ [](~isConnected => calendar = << >>)
  /\ [][(~isConnected /\ ~isConnected') =>
          engineOps' = << >> /\ calendar' = << >>]_vars

\* a write that succeeded after the element was detached with a group hidden
C28_Witness ==
  /\ ~isConnected /\ hasUpdated /\ hass
  /\ lastDone # << >> /\ lastDone[1].ok
  /\ visibleCalendars = {"calendar.b"}
  /\ engineOps = << >>

\* one refetch per source of the engine, in the order of its sources
RefetchOfEverySource(ops, cal) ==
  /\ Len(ops) = Len(cal[1].sources)
  /\ \A i \in 1..Len(ops) : ops[i] = [op |-> "refetch", arg |-> cal[1].sources[i].id]

\* C29: a new hass object, the engine present, asks every source of the
\* engine to refetch and leaves the engine's sources (ids, order, colors)
\* and view, the visibility set, the selected view and the draft of an open
\* dialog unchanged.
C29_RefreshKeepsSources ==
  [][(setHass /\ calendar # << >>) =>
       /\ RefetchOfEverySource(engineOps', calendar)
       /\ calendar' # << >>
       /\ SourceIds(calendar') = SourceIds(calendar)
       /\ SourceColors(calendar') = SourceColors(calendar)
       /\ calendar'[1].view = calendar[1].view
       /\ visibleCalendars' = visibleCalendars
       /\ currentView' = currentView
       /\ UNCHANGED <<draftVars, dialogVars>>]_vars

\* a refresh just made with a dialog open, a group hidden and the week view
C29_Witness ==
  /\ EngineLive /\ DialogOpen
  /\ currentView = "timeGridWeek" /\ calendar[1].view = "timeGridWeek"
  /\ visibleCalendars = {"calendar.b"}
  /\ engineOps = <<EngineOp("refetch", "calendar.b")>>

\* the completion of the fetch of source i calls back for that source only
\* and leaves every other source, its fetch included, as it is
CompletesAlone(i, callback, status) ==
  /\ engineOps' = <<[op |-> callback, arg |-> calendar[1].sources[i].id]>>
  /\ Len(calendar'[1].sources) = Len(calendar[1].sources)
  /\ calendar'[1].sources[i].fetch = status
  /\ \A j \in 1..Len(calendar[1].sources) :
       j # i => calendar'[1].sources[j] = calendar[1].sources[j]

\* a pending fetch can deliver whatever became of the other fetches
PendingCanDeliver ==
  \A j \in 1..SourceCount :
    (EngineLive /\ calendar[1].sources[j].fetch = "pending") => ENABLED fetchResolved(j)

\* C30: the fetches of the sources are independent: a failed fetch invokes
\* the failure callback of its own source only, a fulfilled one the success
\* callback of its own source only, neither changes the fetch of another
\* source, and a pending fetch can still deliver after any other has failed,
\* in whatever order the fetches complete.
C30_FetchesIndependent ==
  /\ [](PendingCanDeliver)
  /\ [][\A i \in 1..SourceCount :
          /\ fetchRejected(i) => CompletesAlone(i, "failureCallback", "failure")
          /\ fetchResolved(i) => CompletesAlone(i, "successCallback", "success")]_vars

\* the second of three sources delivers after the first has failed, the
\* third still pending
C30_Witness ==
  /\ EngineLive /\ SourceCount = 3
  /\ calendar[1].sources[1].fetch = "failure"
  /\ calendar[1].sources[2].fetch = "success"
  /\ calendar[1].sources[3].fetch = "pending"
  /\ engineOps = <<EngineOp("successCallback", calendar[1].sources[2].id)>>

\* the two digits of a number below 100
TwoDigits(n) == <<Digits[(n \div 10) + 1], Digits[(n % 10) + 1]>>

\* value is HH:MM or HH:MM:SS with hours 0-23, minutes 0-59, seconds 0-59
IsTimeOfDay(value) ==
  /\ Len(value) \in {5, 8}
  /\ \E h \in 0..23 : SubSeq(value, 1, 2) = TwoDigits(h)
  /\ value[3] = ":"
  /\ \E m \in 0..59 : SubSeq(value, 4, 5) = TwoDigits(m)
  /\ Len(value) = 8 =>
       value[6] = ":" /\ \E sec \in 0..59 : SubSeq(value, 7, 8) = TwoDigits(sec)

Normalised(value) == IF Len(value) = 5 THEN value \o <<":", "0", "0">> ELSE value

\* the scroll time a configured initial_time stands for when only the forms
\* accepted are those of accepted(raw value)
ScrollTimeOf(cfgOpt, accepted(_)) ==
  IF cfgOpt = << >> \/ "initial_time" \notin DOMAIN cfgOpt[1] THEN Midnight
  ELSE LET value == accepted(cfgOpt[1].initial_time)
       IN IF IsTimeOfDay(value) THEN Normalised(value) ELSE Midnight

\* the engine is created with the scroll time of the configuration
CreatedWithScrollTime ==
  (calendar = << >> /\ calendar' # << >>) =>
    calendar'[1].scrollTime = getInitialScrollTime(config')

AsConfigured(value) == value

InstantOrSeed(value, allDay, seed) ==
  IF value = << >> \/ (allDay /\ Len(value) # 1) THEN seed
  ELSE IF Len(value) = 1 THEN value[1] * MinutesPerDay
  ELSE value[1] * MinutesPerDay + value[2]

\* the input value of an instant under the flag checked
InputOf(instant, checked) ==
  IF checked THEN <<instant \div MinutesPerDay>>
  ELSE <<instant \div MinutesPerDay, instant % MinutesPerDay>>

\* C32: a toggle of the all-day flag to the other value converts each of
\* start and end from its parsed input, and from the start or end of the
\* window the dialog was seeded with when the input is empty or cannot be
\* parsed under the flag still set.
C32_ToggleFallsBackToSeed ==
  [][\A checked \in BOOLEAN :
       (handleAllDayToggle(checked) /\ checked # newEventAllDay) =>
         /\ newEventAllDay' = checked
         /\ newEventStart' =
              InputOf(InstantOrSeed(newEventStart, newEventAllDay, newEventData[1].start),
                      checked)
         /\ newEventEnd' =
              InputOf(InstantOrSeed(newEventEnd, newEventAllDay, newEventData[1].end),
                      checked)]_vars

\* a draft seeded for the day cell of day 1, its end input cleared, and made
\* timed: the end is the seeded window's exclusive end, 00:00 of day 2
C32_Witness ==
  /\ DialogOpen /\ dialogMode = "create" /\ ~newEventAllDay
  /\ newEventData[1].allDay /\ newEventData[1].end = 2 * MinutesPerDay
  /\ newEventStart = <<1, 0>> /\ newEventEnd = <<2, 0>>

\* the composite identity of an event without uid
CompositeId(id, ev) == <<id, WhenOf(ev.start), WhenOf(ev.end), ev.summary>>

\* the rendered event of ev: all-day iff the start is a date alone, identified
\* by the uid when the backend sent one and by the composite otherwise, which
\* two events without uid that agree in start, end and summary share
MappedAsSpecified(id, ev) ==
  /\ Rendered(id, ev).allDay = (ev.start.dateTime = << >>)
  /\ Rendered(id, ev).id = IF ev.uid # << >> THEN ev.uid ELSE CompositeId(id, ev)
  /\ \A other \in BackendEvents :
       (ev.uid = << >> /\ other.uid = << >> /\ other.start = ev.start
          /\ other.end = ev.end /\ other.summary = ev.summary)
         => Rendered(id, other).id = Rendered(id, ev).id

\* C33: every backend event that is rendered and clicked was mapped to an
\* event that is all-day iff the backend start has no date-time, and whose
\* identity is the backend uid when present and the composite of calendar
\* id, start, end and summary otherwise.
C33_MappedIdentityAndAllDay ==
  [][\A id \in SeqToSet(ConfigAB.calendars), ev \in BackendEvents :
       eventClick(EventApiOf(Rendered(id, ev))) => MappedAsSpecified(id, ev)]_vars

\* the dialog shows a draft other than the one write t was submitted from: a
\* create draft while t updates or deletes an event, or an edit draft while
\* t creates one
OtherDraftOpen(t) ==
  /\ DialogOpen
  /\ IF t.kind = "create" THEN dialogMode = "edit" ELSE dialogMode = "create"

\* C34: the completion of a write, successful or not, changes nothing of a
\* draft other than the one it was submitted from: the dialog stays open and
\* keeps its mode, its fields and its error message.
C34_CompletionSparesOtherDraft ==
  [][\A t \in Tasks :
       (OtherDraftOpen(t)
          /\ (serviceResolved(t) \/ \E e \in ErrorInputs : serviceRejected(t, e)))
         => UNCHANGED <<dialogVars, draftVars, errorMessage>>]_vars

\* the edit dialog of an all-day event with a uid, every field as seeded
UntouchedAllDayEdit ==
  /\ DialogOpen /\ dialogMode = "edit" /\ editingEventUid # ""
  /\ newEventData[1].allDay /\ newEventAllDay
  /\ newEventStart = DraftStart(newEventData[1].start, TRUE)
  /\ newEventEnd = DraftEnd(newEventData[1].end, TRUE)
  /\ ~IsBlank(newEventTitle)

\* C35: saving the untouched edit dialog of an all-day event sends an update
\* whose start_date and end_date are the dates of the start and the end the
\* event was delivered with.
C35_AllDayEditRoundTrip ==
  [][(UntouchedAllDayEdit /\ saveClick) =>
       /\ calls' # << >>
       /\ calls'[1].data.start_date = <<newEventData[1].start \div MinutesPerDay>>
       /\ calls'[1].data.end_date = <<newEventData[1].end \div MinutesPerDay>>]_vars

\* a busy flag is set only while a write of its kind awaits the backend
BusyOnlyWhileOutstanding ==
  /\ saving => \E t \in Tasks : t.kind \in {"create", "update"}
  /\ deleting => \E t \in Tasks : t.kind = "delete"

\* C36: with every promise of the backend settled in the end, a set busy
\* flag is always followed by a state in which saving and deleting are both
\* false, and no busy flag is set while no request of its kind is
\* outstanding: not after a success, a failure, or the return of a save for
\* a missing uid.
C36_BusyFlagsCleared ==
  /\ [](BusyOnlyWhileOutstanding)
  /\ (saving \/ deleting) ~> (~saving /\ ~deleting)

\* a write just failed and left no flag set and no request outstanding
C36_Witness ==
  /\ lastDone # << >> /\ ~lastDone[1].ok
  /\ ~saving /\ ~deleting /\ tasks = EmptyBag
  /\ DialogOpen /\ errorMessage # << >>

\* C37: in every reachable state a closed dialog and a dialog in create mode
\* have an empty editingEventUid and an empty editingEventEntityId, so that
\* editingEventUid is non-empty only in edit mode and the identity of a
\* clicked event never reaches a later create draft.
C37_NoIdentityOutsideEdit ==
  (newEventData = << >> \/ dialogMode = "create") =>
    editingEventUid = "" /\ editingEventEntityId = ""

\* a create draft is open while the update of an edited event is still
\* awaiting the backend
C37_Witness ==
  /\ DialogOpen /\ dialogMode = "create"
  /\ editingEventUid = "" /\ editingEventEntityId = ""
  /\ \E t \in Tasks : t.kind = "update"

\* the flag, the instance and the remembered container stand and fall together
InitializedIffEngine ==
  /\ fcInitialized <=> calendar # << >>
  /\ fcInitialized <=> calendarContainer = FcContainer

\* positions of an engine call among the calls of the step just taken
OpAt(name) == {i \in 1..Len(engineOps') : engineOps'[i].op = name}

\* the detach tears the instance down
DetachDestroys ==
  disconnectedCallback =>
    /\ calendar' = << >> /\ ~fcInitialized'
    /\ calendar # << >> => OpAt("destroy") # {}

\* an instance is created only where none is left, an older one having been
\* destroyed first, and its sources are the visible calendars of that moment
CreationReplaces ==
  OpAt("render") # {} =>
    /\ calendar = << >> \/ \E d \in OpAt("destroy") : \A r \in OpAt("render") : d < r
    /\ Cardinality(OpAt("render")) = 1
    /\ calendar' # << >> /\ config' # << >>
    /\ SourceIds(calendar') = VisibleIds(config'[1], visibleCalendars')
    /\ \A i \in 1..Len(calendar'[1].sources) : calendar'[1].sources[i].fetch = "pending"

=============================================================================
